---------------------------- MODULE Spec2Model ----------------------------
(***************************************************************************)
(* Template rendering of slumber (src/template/render.rs).                 *)
(*                                                                         *)
(* A string is a sequence of tokens.  A template is its source string and  *)
(* the parsed chunks: Raw(span) or Key(variant, span), spans being         *)
(* half-open ranges into the source.  A render is a tree of futures: one   *)
(* frame per render_stitched call and one future per chunk of its          *)
(* template.  The futures of one top-level render run as one task of a     *)
(* cooperative executor: join_all polls its children in index order and a  *)
(* polled future runs until it awaits an operation that is still pending   *)
(* (file read, subprocess, prompt reply, HTTP send).  So the step taken    *)
(* next is always the leftmost runnable one, and the completion of a       *)
(* pending operation is observed only when the task has nothing left to    *)
(* run.                                                                    *)
(***************************************************************************)
EXTENDS Integers, Sequences, FiniteSets, TLC

\* Bounds of the model
MaxChunks == 2
MaxRenders == 2
MaxNow == 3
\* The nested builder.build calls a render is followed through
MaxReentry == 4
\* The profile list modals open at once, and the events waiting in the queue
MaxModals == 2
MaxEvents == 4

\* template/mod.rs: the limit render_stitched compares the counter with
\* (scaled down; the comparison is what is modelled)
RECURSION_LIMIT == 3

None == [tag |-> "None"]
Some(v) == [tag |-> "Some", value |-> v]

Ok(v) == [tag |-> "Ok", value |-> v]
Err(e) == [tag |-> "Err", error |-> e]
Pending == [tag |-> "Pending"]

-----------------------------------------------------------------------------
(* Templates *)

R(s) == [k |-> "Raw", s |-> s]
Field(n) == [k |-> "Field", s |-> <<n>>]
Chain(n) == [k |-> "Chain", s |-> <<n>>]
Environment(n) == [k |-> "Environment", s |-> <<n>>]

\* Display of a key variant: what precedes the name in the source
KeyPrefix(variant) ==
    CASE variant = "Field" -> <<>>
      [] variant = "Chain" -> <<"chains.">>
      [] variant = "Environment" -> <<"env.">>

RECURSIVE ParseFrom(_, _, _, _)
ParseFrom(pieces, i, src, chunks) ==
    IF i > Len(pieces) THEN [src |-> src, chunks |-> chunks]
    ELSE LET pc == pieces[i] IN
         IF pc.k = "Raw"
         THEN ParseFrom(pieces, i + 1, src \o pc.s,
                  Append(chunks, [type |-> "Raw", variant |-> "Raw",
                                  start |-> Len(src),
                                  end |-> Len(src) + Len(pc.s)]))
         ELSE LET open == src \o <<"{{">> \o KeyPrefix(pc.k) IN
              ParseFrom(pieces, i + 1, open \o pc.s \o <<"}}">>,
                  Append(chunks, [type |-> "Key", variant |-> pc.k,
                                  start |-> Len(open),
                                  end |-> Len(open) + Len(pc.s)]))

\* The parser's result for the template written as `pieces`
Template(pieces) == ParseFrom(pieces, 1, <<>>, <<>>)

\* Template::substring
Substring(template, span) == SubSeq(template.src, span.start + 1, span.end)

\* impl Display for TemplateKey, used by key.to_string()
KeyToString(variant, name) == KeyPrefix(variant) \o name

-----------------------------------------------------------------------------
(* The collection and the collaborators' data *)

Bytes(text, utf8, json) == [text |-> text, utf8 |-> utf8, json |-> json]

Path(stem, ext) == [stem |-> stem, ext |-> ext]

\* The filesystem fs::read sees: a path outside the domain cannot be read
Files ==
    (Path("tok", "txt") :> Bytes(<<"abc">>, TRUE, FALSE))
    @@ (Path("cfg", "json") :> Bytes(<<"{cfg}">>, TRUE, TRUE))
    @@ (Path("bin", "dat") :> Bytes(<<"0xff">>, FALSE, FALSE))
    @@ (Path("data", "txt") :> Bytes(<<"{data}">>, TRUE, TRUE))

\* The programs Command::new can spawn, with their stdout
Programs == (<<"echo">> :> Bytes(<<"out">>, TRUE, FALSE))

\* The process environment env::var reads
EnvVars == ("HOME" :> <<"/root">>)

\* The reply a user types into a prompt
PromptReplyText == <<"pw">>

\* The response of the most recent record in history and of a fresh send
OldResponse == [body |-> Bytes(<<"old">>, TRUE, TRUE), content_type |-> Some("json")]
NewResponse == [body |-> Bytes(<<"new">>, TRUE, FALSE), content_type |-> None]

\* The most recent record of history, when there is one
StoredRecord == [end_time |-> 1, response |-> OldResponse]

Triggers ==
    { [t |-> "Never", duration |-> 0], [t |-> "NoHistory", duration |-> 0],
      [t |-> "Expire", duration |-> 1], [t |-> "Always", duration |-> 0] }

DefaultTrigger == [t |-> "Never", duration |-> 0]

ChainDef(source, content_type, selector, sensitive) ==
    [source |-> source, content_type |-> content_type, selector |-> selector,
     sensitive |-> sensitive]

FileSource(path) == [type |-> "File", path |-> path]
CommandSource(command) == [type |-> "Command", command |-> command]
PromptSource(message) == [type |-> "Prompt", message |-> message]
RequestSource(recipe, trig) == [type |-> "Request", recipe |-> recipe, trigger |-> trig]

\* The chains of the collection when its Request chains carry trigger `trig`
ChainsWith(trig) ==
    (<<"tok">> :> ChainDef(FileSource(Path("tok", "txt")), None, None, TRUE))
    @@ (<<"cfg">> :> ChainDef(FileSource(Path("cfg", "json")), None, Some("$.ok"), FALSE))
    @@ (<<"cfgother">> :>
          ChainDef(FileSource(Path("cfg", "json")), Some("other"), Some("$.ok"), FALSE))
    @@ (<<"datajson">> :>
          ChainDef(FileSource(Path("data", "txt")), Some("json"), Some("$.ok"), FALSE))
    @@ (<<"datasel">> :> ChainDef(FileSource(Path("data", "txt")), None, Some("$.ok"), FALSE))
    @@ (<<"cfgraw">> :> ChainDef(FileSource(Path("cfg", "json")), Some("other"), None, FALSE))
    @@ (<<"nofile">> :> ChainDef(FileSource(Path("gone", "txt")), None, None, FALSE))
    @@ (<<"bin">> :> ChainDef(FileSource(Path("bin", "dat")), None, None, FALSE))
    @@ (<<"cmd">> :> ChainDef(CommandSource(<<"echo">>), None, None, FALSE))
    @@ (<<"cmdsel">> :> ChainDef(CommandSource(<<"echo">>), None, Some("$.ok"), TRUE))
    @@ (<<"cmdjson">> :> ChainDef(CommandSource(<<"echo">>), Some("json"), Some("$.ok"), FALSE))
    @@ (<<"cmd0">> :> ChainDef(CommandSource(<<>>), None, None, FALSE))
    @@ (<<"nocmd">> :> ChainDef(CommandSource(<<"nocmd">>), None, None, FALSE))
    @@ (<<"ask">> :> ChainDef(PromptSource(None), None, None, TRUE))
    @@ (<<"askm">> :> ChainDef(PromptSource(Some(<<"Password">>)), None, None, FALSE))
    @@ (<<"asksel">> :> ChainDef(PromptSource(None), None, Some("$.ok"), FALSE))
    @@ (<<"askjson">> :> ChainDef(PromptSource(None), Some("json"), Some("$.ok"), TRUE))
    @@ (<<"req">> :> ChainDef(RequestSource("r1", trig), None, None, TRUE))
    @@ (<<"reqnever">> :> ChainDef(RequestSource("r1", DefaultTrigger), None, None, TRUE))
    @@ (<<"reqsel">> :> ChainDef(RequestSource("r1", trig), None, Some("$.bad"), FALSE))
    @@ (<<"gone">> :> ChainDef(RequestSource("gone", trig), None, None, FALSE))
    @@ (<<"reqbad">> :> ChainDef(RequestSource("rbad", trig), None, None, FALSE))
    @@ (<<"selfreq">> :>
          ChainDef(RequestSource("rself", [t |-> "Always", duration |-> 0]), None, None, FALSE))

\* collection.chains, for every trigger the model gives the Request chains
ChainTable == [trig \in Triggers |-> ChainsWith(trig)]
Chains(trig) == ChainTable[trig]

\* collection.recipes: the template of a recipe is the one its request is built from
Recipes ==
    ("r1" :> [id |-> "r1", url |-> Template(<<R(<<"http://h/">>), Field("greeting")>>)])
    @@ ("rbad" :> [id |-> "rbad", url |-> Template(<<Field("nof")>>)])
    @@ ("rself" :> [id |-> "rself", url |-> Template(<<Chain("selfreq")>>)])

\* collection.profiles: profile id -> field -> template
Profiles ==
    ("p1" :>
        ( (<<"greeting">> :> Template(<<R(<<"Hi">>)>>))
          @@ (<<"name">> :> Template(<<Field("greeting")>>))
          @@ (<<"loop">> :> Template(<<R(<<"l">>), Field("loop")>>))
          @@ (<<"ping">> :> Template(<<Field("pong")>>))
          @@ (<<"pong">> :> Template(<<Field("ping")>>))
          @@ (<<"d0">> :> Template(<<Field("d1")>>))
          @@ (<<"d1">> :> Template(<<Field("d2")>>))
          @@ (<<"d2">> :> Template(<<Field("d3")>>))
          @@ (<<"d3">> :> Template(<<R(<<"Z">>)>>))
          @@ (<<"secret">> :> Template(<<R(<<"s=">>), Chain("tok")>>)) ))

-----------------------------------------------------------------------------
(* The inputs: templates and contexts *)

FieldKeys == { Field(n) : n \in {"greeting", "name", "loop", "ping", "d0", "secret", "nof"} }
ChainKeys ==
    { Chain(n) : n \in {"tok", "cfg", "cfgother", "datajson", "datasel", "cfgraw", "nofile", "bin", "cmd", "cmdsel", "cmdjson", "cmd0",
                        "nocmd", "ask", "askm", "asksel",
                        "askjson", "req", "reqnever", "reqsel", "gone", "reqbad",
                        "selfreq", "nochain"} }
EnvironmentKeys == { Environment(n) : n \in {"HOME", "NOPE"} }
AllKeys == FieldKeys \cup ChainKeys \cup EnvironmentKeys
RequestKeys == { Chain(n) : n \in {"req", "reqnever", "reqsel", "gone", "reqbad"} }

\* The pieces the longer templates are written with
Pieces ==
    { R(<<"x">>), Field("greeting"), Field("name"), Field("loop"), Field("nof"),
      Chain("tok"), Chain("nofile"), Chain("ask"), Environment("HOME") }

SeqsUpTo(n, S) == UNION { [1..m -> S] : m \in 0..n }

NoOverrides == [k \in {} |-> <<>>]
SomeOverrides ==
    (<<"greeting">> :> <<>>) @@ (<<"nof">> :> <<"N">>) @@ (<<"chains.", "tok">> :> <<"T">>)
\* An entry for the textual form of every key
AllOverrides ==
    [k \in { KeyToString(key.k, key.s) : key \in AllKeys } |->
        IF k = <<"greeting">> THEN <<>> ELSE <<"=">> \o k]

Context(profile, ovr, engine, db, clock, trig) ==
    [profile |-> profile, overrides |-> ovr, engine |-> engine, database |-> db,
     now |-> clock, trigger |-> trig]

Scenarios ==
    \* templates of several chunks, in the everyday context
    { [pieces |-> ps, ctx |-> Context(Some("p1"), o, "ok", "record", 1, DefaultTrigger)] :
        ps \in SeqsUpTo(MaxChunks, Pieces),
        o \in {NoOverrides, SomeOverrides, AllOverrides} }
    \cup
    \* every key alone, under every profile and override map
    { [pieces |-> <<key>>, ctx |-> Context(pr, o, "ok", "record", 1, DefaultTrigger)] :
        key \in AllKeys, pr \in {None, Some("p1"), Some("ghost")},
        o \in {NoOverrides, AllOverrides} }
    \cup
    \* every Request chain under every trigger, history, clock and engine
    { [pieces |-> <<key>>, ctx |-> Context(Some("p1"), NoOverrides, e, db, t, trig)] :
        key \in RequestKeys, e \in {"none", "ok", "fail"},
        db \in {"empty", "record", "fail"}, t \in 1..MaxNow, trig \in Triggers }
    \cup
    \* two Request chains of one recipe, the second with trigger Never
    { [pieces |-> <<Chain("req"), Chain("reqnever")>>,
       ctx |-> Context(Some("p1"), NoOverrides, e, db, t, trig)] :
        e \in {"none", "ok", "fail"},
        db \in {"empty", "record", "fail"}, t \in 1..MaxNow, trig \in Triggers }

-----------------------------------------------------------------------------
(* State *)

VARIABLES
    tmpl,             \* the template the top-level renders
    selected_profile, \* context.selected_profile
    overrides,        \* context.overrides
    http_engine,      \* context.http_engine: "none", or how its send ends
    database,         \* context.database: "empty", "record" or "fail"
    now,              \* Utc::now()
    trigger,          \* the trigger of the collection's Request chains
    recursion_count,  \* context.recursion_count
    frames,           \* path -> a render_stitched call
    futs,             \* path -> a per-chunk future of render_chunks
    calls,            \* the calls made on collaborators by the current render
    results,          \* what the top-level renders on this context returned
    profiles,         \* ProfilePane.profiles: the items and the selected one
    modals,           \* the open ProfileListModals, the active one first
    events,           \* the events pushed on the ViewContext, oldest first
    handled           \* the handler that ran last, and what it returned

vars == <<tmpl, selected_profile, overrides, http_engine, database, now, trigger,
          recursion_count, frames, futs, calls, results,
          profiles, modals, events, handled>>

viewVars == <<profiles, modals, events, handled>>

renderVars == <<tmpl, selected_profile, overrides, http_engine, database, now, trigger,
                recursion_count, frames, futs, calls, results>>

ctxVars == <<tmpl, selected_profile, overrides, http_engine, database, now, trigger>>

NoTasks == [p \in {} |-> None]

\* A SelectState: the ids of its items and the id of the selected one
SelectState(items, selected) == [items |-> items, selected |-> selected]

NotHandled == [by |-> "none"]

Init ==
    \E s \in Scenarios :
        /\ tmpl = Template(s.pieces)
        /\ selected_profile = s.ctx.profile
        /\ overrides = s.ctx.overrides
        /\ http_engine = s.ctx.engine
        /\ database = s.ctx.database
        /\ now = s.ctx.now
        /\ trigger = s.ctx.trigger
        /\ recursion_count = 0
        /\ frames = NoTasks
        /\ futs = NoTasks
        /\ calls = <<>>
        /\ results = <<>>
        /\ profiles = SelectState(<<>>, None)
        /\ modals = <<>>
        /\ events = <<>>
        /\ handled = NotHandled

\* loaded: the value of the counter the entry check read
Frame(template) ==
    [tmpl |-> template, pc |-> "entry", loaded |-> 0, outs |-> <<>>, res |-> Pending]
\* via: how get_response came by its response; at: the future's rank in the order
\* in which the futures of the render completed
Future(chunk) ==
    [chunk |-> chunk, pc |-> "start", via |-> "none", io |-> Pending, out |-> Pending,
     at |-> 0]

Call(op, p, arg) == [op |-> op, by |-> p, arg |-> arg]

\* The key of a chunk of frame p's template, as render_chunks sees it
KeyName(p) == Substring(frames[SubSeq(p, 1, Len(p) - 1)].tmpl, futs[p].chunk)
KeyRaw(p) == KeyToString(futs[p].chunk.variant, KeyName(p))

Children(p) == { p \o <<i>> : i \in 1..Len(frames[p].tmpl.chunks) }

-----------------------------------------------------------------------------
(* The executor *)

\* p is polled before q: p comes first in the depth-first order of the tree
Before(p, q) ==
    \E k \in 1..Len(q) :
        /\ k <= Len(p) + 1
        /\ \A j \in 1..(k - 1) : p[j] = q[j]
        /\ (k = Len(p) + 1 \/ p[k] < q[k])

FutureRunnable(p) ==
    \/ futs[p].pc \in {"start", "resume"}
    \/ futs[p].pc \in {"stitched", "build"} /\ frames[p].pc = "done"

FrameRunnableOnFirstError(p) ==
    \/ frames[p].pc \in {"entry", "chunks", "stitch"}
    \/ /\ frames[p].pc = "join"
       /\ \/ \A c \in Children(p) : futs[c].pc = "done"
          \/ \E c \in Children(p) : futs[c].pc = "done" /\ futs[c].out.type = "Error"
    \/ frames[p].pc = "done" /\ p = <<>>

FrameRunnable(p) ==
    \/ frames[p].pc \in {"entry", "chunks", "stitch"}
    \/ frames[p].pc = "join" /\ \A c \in Children(p) : futs[c].pc = "done"
    \/ frames[p].pc = "done" /\ p = <<>>

Runnable ==
    { p \in DOMAIN futs : FutureRunnable(p) } \cup { p \in DOMAIN frames : FrameRunnable(p) }

IsNext(p) == p \in Runnable /\ \A q \in Runnable : q = p \/ Before(p, q)

-----------------------------------------------------------------------------
(* Template::render, render_stitched, render_chunks *)

\* Template::render called on the context
Render ==
    /\ DOMAIN frames = {}
    /\ Len(results) < MaxRenders
    /\ frames' = (<<>> :> Frame(tmpl))
    /\ futs' = NoTasks
    /\ calls' = <<>>
    /\ UNCHANGED <<viewVars, ctxVars, recursion_count, results>>

StitchedEntryUnchecked(p) ==
    /\ p \in DOMAIN frames /\ frames[p].pc = "entry" /\ IsNext(p)
    /\ frames' = [frames EXCEPT ![p].pc = "chunks", ![p].loaded = recursion_count]
    /\ UNCHANGED <<viewVars, ctxVars, recursion_count, futs, calls, results>>

\* render_stitched: the check of the recursion counter
StitchedEntry(p) ==
    /\ p \in DOMAIN frames /\ frames[p].pc = "entry" /\ IsNext(p)
    /\ frames' = [frames EXCEPT ![p] =
          IF recursion_count >= RECURSION_LIMIT
          THEN [@ EXCEPT !.pc = "done", !.loaded = recursion_count,
                         !.res = Err([err |-> "RecursionLimit"])]
          ELSE [@ EXCEPT !.pc = "chunks", !.loaded = recursion_count]]
    /\ UNCHANGED <<viewVars, ctxVars, recursion_count, futs, calls, results>>

\* render_chunks: one future per chunk, handed to join_all
RenderChunks(p) ==
    /\ p \in DOMAIN frames /\ frames[p].pc = "chunks" /\ IsNext(p)
    /\ frames' = [frames EXCEPT ![p].pc = "join"]
    /\ futs' = [c \in Children(p) |-> Future(frames[p].tmpl.chunks[c[Len(c)]])] @@ futs
    /\ UNCHANGED <<viewVars, ctxVars, recursion_count, calls, results>>

\* TemplateChunk, the output of one chunk
RawOut(span) == [type |-> "Raw", start |-> span.start, end |-> span.end]
Rendered(value, sensitive) == [type |-> "Rendered", value |-> value, sensitive |-> sensitive]
ErrorOut(error) == [type |-> "Error", error |-> error]

\* RenderedChunk, the outcome of a source
RenderedChunk(value, sensitive) == [value |-> value, sensitive |-> sensitive]

\* impl From<TemplateResult> for TemplateChunk
ToChunk(result) ==
    IF result.tag = "Ok"
    THEN Rendered(result.value.value, result.value.sensitive)
    ELSE ErrorOut(result.error)

\* The future of chunk p completes with `out`
Complete(p, out) ==
    [futs EXCEPT ![p].pc = "done", ![p].out = out,
                 ![p].at = Cardinality({ q \in DOMAIN futs : futs[q].pc = "done" }) + 1]

\* A Raw chunk is mapped 1:1
RawChunk(p) ==
    /\ p \in DOMAIN futs /\ futs[p].pc = "start" /\ IsNext(p)
    /\ futs[p].chunk.type = "Raw"
    /\ futs' = Complete(p, RawOut(futs[p].chunk))
    /\ UNCHANGED <<viewVars, ctxVars, recursion_count, frames, calls, results>>

OverrideChunkKeepsFlag(p) ==
    /\ p \in DOMAIN futs /\ futs[p].pc = "start" /\ IsNext(p)
    /\ futs[p].chunk.type = "Key"
    /\ KeyRaw(p) \in DOMAIN overrides
    /\ futs' = Complete(p, ToChunk(Ok(RenderedChunk(overrides[KeyRaw(p)],
                    /\ futs[p].chunk.variant = "Chain"
                    /\ KeyName(p) \in DOMAIN Chains(trigger)
                    /\ Chains(trigger)[KeyName(p)].sensitive))))
    /\ UNCHANGED <<viewVars, ctxVars, recursion_count, frames, calls, results>>

\* A key found in context.overrides: the given value, not parsed
OverrideChunk(p) ==
    /\ p \in DOMAIN futs /\ futs[p].pc = "start" /\ IsNext(p)
    /\ futs[p].chunk.type = "Key"
    /\ KeyRaw(p) \in DOMAIN overrides
    /\ futs' = Complete(p, ToChunk(Ok(RenderedChunk(overrides[KeyRaw(p)], FALSE))))
    /\ UNCHANGED <<viewVars, ctxVars, recursion_count, frames, calls, results>>

DispatchedByBareName(p, variant) ==
    /\ p \in DOMAIN futs /\ futs[p].pc = "start" /\ IsNext(p)
    /\ futs[p].chunk.type = "Key"
    /\ futs[p].chunk.variant = variant
    /\ Substring(frames[SubSeq(p, 1, Len(p) - 1)].tmpl, futs[p].chunk) \notin DOMAIN overrides

\* A key that into_source().render() is called on
Dispatched(p, variant) ==
    /\ p \in DOMAIN futs /\ futs[p].pc = "start" /\ IsNext(p)
    /\ futs[p].chunk.type = "Key"
    /\ futs[p].chunk.variant = variant
    /\ KeyRaw(p) \notin DOMAIN overrides

EnvironmentRenderCounted(p) ==
    /\ Dispatched(p, "Environment")
    /\ LET variable == KeyName(p)[1]
           result == IF variable \in DOMAIN EnvVars
                     THEN Ok(RenderedChunk(EnvVars[variable], FALSE))
                     ELSE Err([err |-> "EnvironmentVariable", variable |-> variable])
       IN /\ futs' = Complete(p, ToChunk(result))
          /\ calls' = Append(calls, Call("env.var", p, variable))
    /\ recursion_count' = recursion_count + 1
    /\ UNCHANGED <<viewVars, ctxVars, frames, results>>

\* EnvironmentTemplateSource::render
EnvironmentRender(p) ==
    /\ Dispatched(p, "Environment")
    /\ LET variable == KeyName(p)[1]
           result == IF variable \in DOMAIN EnvVars
                     THEN Ok(RenderedChunk(EnvVars[variable], FALSE))
                     ELSE Err([err |-> "EnvironmentVariable", variable |-> variable])
       IN /\ futs' = Complete(p, ToChunk(result))
          /\ calls' = Append(calls, Call("env.var", p, variable))
    /\ UNCHANGED <<viewVars, ctxVars, recursion_count, frames, results>>

FieldRenderCountsFirst(p) ==
    /\ Dispatched(p, "Field")
    /\ recursion_count' = recursion_count + 1
    /\ LET field == KeyName(p) IN
       IF selected_profile = None
       THEN /\ futs' = Complete(p, ErrorOut([err |-> "NoProfileSelected"]))
            /\ UNCHANGED <<frames, calls>>
       ELSE LET profile_id == selected_profile.value
                lookup == Call("profiles.get", p, profile_id)
            IN
            IF profile_id \notin DOMAIN Profiles
            THEN /\ futs' = Complete(p, ErrorOut([err |-> "ProfileUnknown",
                                                  profile_id |-> profile_id]))
                 /\ calls' = Append(calls, lookup)
                 /\ UNCHANGED frames
            ELSE IF field \notin DOMAIN Profiles[profile_id]
            THEN /\ futs' = Complete(p, ErrorOut([err |-> "FieldUnknown", field |-> field]))
                 /\ calls' = Append(calls, lookup)
                 /\ UNCHANGED frames
            ELSE /\ frames' = (p :> Frame(Profiles[profile_id][field])) @@ frames
                 /\ futs' = [futs EXCEPT ![p].pc = "stitched"]
                 /\ calls' = Append(calls, lookup)
    /\ UNCHANGED <<viewVars, ctxVars, results>>

\* FieldTemplateSource::render, to the await of the nested render_stitched
FieldRender(p) ==
    /\ Dispatched(p, "Field")
    /\ LET field == KeyName(p) IN
       IF selected_profile = None
       THEN /\ futs' = Complete(p, ErrorOut([err |-> "NoProfileSelected"]))
            /\ UNCHANGED <<recursion_count, frames, calls>>
       ELSE LET profile_id == selected_profile.value
                lookup == Call("profiles.get", p, profile_id)
            IN
            IF profile_id \notin DOMAIN Profiles
            THEN /\ futs' = Complete(p, ErrorOut([err |-> "ProfileUnknown",
                                                  profile_id |-> profile_id]))
                 /\ calls' = Append(calls, lookup)
                 /\ UNCHANGED <<recursion_count, frames>>
            ELSE IF field \notin DOMAIN Profiles[profile_id]
            THEN /\ futs' = Complete(p, ErrorOut([err |-> "FieldUnknown", field |-> field]))
                 /\ calls' = Append(calls, lookup)
                 /\ UNCHANGED <<recursion_count, frames>>
            ELSE /\ recursion_count' = recursion_count + 1
                 /\ frames' = (p :> Frame(Profiles[profile_id][field])) @@ frames
                 /\ futs' = [futs EXCEPT ![p].pc = "stitched"]
                 /\ calls' = Append(calls, lookup)
    /\ UNCHANGED <<viewVars, ctxVars, results>>

FieldResumeDecrementing(p) ==
    /\ p \in DOMAIN futs /\ futs[p].pc = "stitched" /\ IsNext(p)
    /\ frames[p].pc = "done"
    /\ LET rendered == frames[p].res
           result == IF rendered.tag = "Ok"
                     THEN Ok(RenderedChunk(rendered.value, FALSE))
                     ELSE Err([err |-> "Nested", template |-> frames[p].tmpl.src,
                               error |-> rendered.error])
       IN futs' = Complete(p, ToChunk(result))
    /\ recursion_count' = recursion_count - 1
    /\ UNCHANGED <<viewVars, ctxVars, frames, calls, results>>

FieldResumeUnwrapped(p) ==
    /\ p \in DOMAIN futs /\ futs[p].pc = "stitched" /\ IsNext(p)
    /\ frames[p].pc = "done"
    /\ LET rendered == frames[p].res
           result == IF rendered.tag = "Ok"
                     THEN Ok(RenderedChunk(rendered.value, FALSE))
                     ELSE rendered
       IN futs' = Complete(p, ToChunk(result))
    /\ UNCHANGED <<viewVars, ctxVars, recursion_count, frames, calls, results>>

\* FieldTemplateSource::render, from the nested render_stitched's return
FieldResume(p) ==
    /\ p \in DOMAIN futs /\ futs[p].pc = "stitched" /\ IsNext(p)
    /\ frames[p].pc = "done"
    /\ LET rendered == frames[p].res
           result == IF rendered.tag = "Ok"
                     THEN Ok(RenderedChunk(rendered.value, FALSE))
                     ELSE Err([err |-> "Nested", template |-> frames[p].tmpl.src,
                               error |-> rendered.error])
       IN futs' = Complete(p, ToChunk(result))
    /\ UNCHANGED <<viewVars, ctxVars, recursion_count, frames, calls, results>>

JoinAllAsCompleted(p) ==
    /\ p \in DOMAIN frames /\ frames[p].pc = "join" /\ IsNext(p)
    /\ frames' = [frames EXCEPT
          ![p].pc = "stitch",
          ![p].outs = [i \in 1..Len(frames[p].tmpl.chunks) |->
              LET c == CHOOSE c \in Children(p) :
                          Cardinality({ d \in Children(p) : futs[d].at <= futs[c].at }) = i
              IN futs[c].out]]
    /\ UNCHANGED <<viewVars, ctxVars, recursion_count, futs, calls, results>>

\* join_all: every future has completed; the outputs in the order of the futures
JoinAll(p) ==
    /\ p \in DOMAIN frames /\ frames[p].pc = "join" /\ IsNext(p)
    /\ frames' = [frames EXCEPT
          ![p].pc = "stitch",
          ![p].outs = [i \in 1..Len(frames[p].tmpl.chunks) |-> futs[p \o <<i>>].out]]
    /\ UNCHANGED <<viewVars, ctxVars, recursion_count, futs, calls, results>>

RECURSIVE StitchFrom(_, _, _, _)
StitchFrom(template, chunks, i, buffer) ==
    IF i > Len(chunks) THEN Ok(buffer)
    ELSE CASE chunks[i].type = "Raw" ->
                StitchFrom(template, chunks, i + 1, buffer \o Substring(template, chunks[i]))
           [] chunks[i].type = "Rendered" ->
                StitchFrom(template, chunks, i + 1, buffer \o chunks[i].value)
           [] chunks[i].type = "Error" -> Err(chunks[i].error)

RECURSIVE StitchLastFrom(_, _, _, _, _)
StitchLastFrom(template, chunks, i, buffer, failed) ==
    IF i > Len(chunks) THEN (IF failed = None THEN Ok(buffer) ELSE Err(failed.value))
    ELSE CASE chunks[i].type = "Raw" ->
                StitchLastFrom(template, chunks, i + 1,
                               buffer \o Substring(template, chunks[i]), failed)
           [] chunks[i].type = "Rendered" ->
                StitchLastFrom(template, chunks, i + 1, buffer \o chunks[i].value, failed)
           [] chunks[i].type = "Error" ->
                StitchLastFrom(template, chunks, i + 1, buffer, Some(chunks[i].error))

StitchedLastError(template, chunks) == StitchLastFrom(template, chunks, 1, <<>>, None)

\* render_stitched: the chunks stitched together into one string
Stitched(template, chunks) == StitchFrom(template, chunks, 1, <<>>)

StitchEarliestError(p) ==
    /\ p \in DOMAIN frames /\ frames[p].pc = "stitch" /\ IsNext(p)
    /\ LET outs == frames[p].outs
           failed == { i \in DOMAIN outs : outs[i].type = "Error" }
           first == CHOOSE i \in failed :
                        \A j \in failed : futs[p \o <<i>>].at <= futs[p \o <<j>>].at
       IN frames' = [frames EXCEPT
             ![p].pc = "done",
             ![p].res = IF failed = {} THEN Stitched(frames[p].tmpl, outs)
                        ELSE Err(outs[first].error)]
    /\ UNCHANGED <<viewVars, ctxVars, recursion_count, futs, calls, results>>

Stitch(p) ==
    /\ p \in DOMAIN frames /\ frames[p].pc = "stitch" /\ IsNext(p)
    /\ frames' = [frames EXCEPT
          ![p].pc = "done",
          ![p].res = Stitched(frames[p].tmpl, frames[p].outs)]
    /\ UNCHANGED <<viewVars, ctxVars, recursion_count, futs, calls, results>>

\* Template::render returns to its caller, and its futures are dropped
Return ==
    /\ <<>> \in DOMAIN frames /\ frames[<<>>].pc = "done"
    /\ results' = Append(results, frames[<<>>].res)
    /\ frames' = NoTasks
    /\ futs' = NoTasks
    /\ UNCHANGED <<viewVars, ctxVars, recursion_count, calls>>

-----------------------------------------------------------------------------
(* ChainTemplateSource *)

\* ContentType::from_response(..).ok(): the Content-Type header, when recognised
FromResponse(response) == response.content_type

\* ContentType::from_extension(..).ok()
FromExtension(path) == IF path.ext = "json" THEN Some("json") ELSE None

\* content_type.parse_content: the bytes parse as that content type or they do not
ParseContent(content_type, value) ==
    IF content_type = "json" /\ value.json THEN Ok(value.text)
    ELSE Err([err |-> "ParseResponse"])

\* selector.query_to_string
QueryToString(selector, parsed) ==
    IF selector = "$.ok" THEN Ok(<<"$.ok of ">> \o parsed) ELSE Err([err |-> "Query"])

SelectHintFirst(chain, value, hint) ==
    LET content_type == IF hint # None THEN hint ELSE chain.content_type IN
    IF chain.selector # None
    THEN IF content_type = None THEN Err([err |-> "UnknownContentType"])
         ELSE LET parsed == ParseContent(content_type.value, value) IN
              IF parsed.tag = "Err" THEN parsed
              ELSE LET selected == QueryToString(chain.selector.value, parsed.value) IN
                   IF selected.tag = "Err" THEN selected
                   ELSE Ok(RenderedChunk(selected.value, chain.sensitive))
    ELSE IF value.utf8 THEN Ok(RenderedChunk(value.text, chain.sensitive))
         ELSE Err([err |-> "InvalidUtf8"])

\* ChainTemplateSource::render from the resolved (value, content_type) on
Select(chain, value, hint) ==
    LET content_type == IF chain.content_type # None THEN chain.content_type ELSE hint IN
    IF chain.selector # None
    THEN IF content_type = None THEN Err([err |-> "UnknownContentType"])
         ELSE LET parsed == ParseContent(content_type.value, value) IN
              IF parsed.tag = "Err" THEN parsed
              ELSE LET selected == QueryToString(chain.selector.value, parsed.value) IN
                   IF selected.tag = "Err" THEN selected
                   ELSE Ok(RenderedChunk(selected.value, chain.sensitive))
    ELSE IF value.utf8 THEN Ok(RenderedChunk(value.text, chain.sensitive))
         ELSE Err([err |-> "InvalidUtf8"])

WrapChainBare(chain_id, result) == result

\* The chain error wrapped into a TemplateError
WrapChain(chain_id, result) ==
    IF result.tag = "Ok" THEN result
    ELSE Err([err |-> "Chain", chain_id |-> chain_id, error |-> result.error])

\* The resolved source of a chain: its value or error, and the detected content type
Resolved(chain_id, chain, source) ==
    ToChunk(WrapChain(chain_id,
        IF source.value.tag = "Err" THEN source.value
        ELSE Select(chain, source.value.value, source.hint)))

\* get_most_recent: database.get_last_request
GetMostRecent ==
    CASE database = "fail" -> Err([err |-> "Database"])
      [] database = "empty" -> Ok(None)
      [] database = "record" -> Ok(Some(StoredRecord))

NotExpiredStrict(record, duration) == record.end_time + duration > now

AlwaysExpired(record, duration) == FALSE

\* The guard of the Expire arm: the record is still good at its expiry instant
NotExpired(record, duration) == record.end_time + duration >= now

\* What get_response has decided before its first await: do is "return" (with the
\* result) or "send" (send_request is called)
Answer(result, log) == [do |-> "return", result |-> result, calls |-> log]
SendNew(log) == [do |-> "send", result |-> Pending, calls |-> log]

MatchTriggerEager(p, recipe_id, trig) ==
    LET query == <<Call("database.get_last_request", p, recipe_id)>>
        recent == GetMostRecent
    IN
    CASE trig.t = "Never" ->
            IF recent.tag = "Err" THEN Answer(recent, query)
            ELSE IF recent.value = None THEN Answer(Err([err |-> "NoResponse"]), query)
            ELSE Answer(Ok(recent.value.value.response), query)
      [] trig.t = "NoHistory" ->
            IF recent.tag = "Err" THEN Answer(recent, query)
            ELSE IF recent.value # None THEN Answer(Ok(recent.value.value.response), query)
            ELSE SendNew(query)
      [] trig.t = "Expire" ->
            IF recent.tag = "Err" THEN Answer(recent, query)
            ELSE IF recent.value # None /\ NotExpired(recent.value.value, trig.duration)
            THEN Answer(Ok(recent.value.value.response), query)
            ELSE SendNew(query)
      [] trig.t = "Always" ->
            IF recent.tag = "Err" THEN Answer(recent, query) ELSE SendNew(query)

MatchTriggerSendsOnDatabaseError(p, recipe_id, trig) ==
    LET query == <<Call("database.get_last_request", p, recipe_id)>>
        recent == GetMostRecent
    IN
    CASE trig.t = "Never" ->
            IF recent.tag = "Err" THEN Answer(recent, query)
            ELSE IF recent.value = None THEN Answer(Err([err |-> "NoResponse"]), query)
            ELSE Answer(Ok(recent.value.value.response), query)
      [] trig.t = "NoHistory" ->
            IF recent.tag = "Err" THEN SendNew(query)
            ELSE IF recent.value # None THEN Answer(Ok(recent.value.value.response), query)
            ELSE SendNew(query)
      [] trig.t = "Expire" ->
            IF recent.tag = "Err" THEN SendNew(query)
            ELSE IF recent.value # None /\ NotExpired(recent.value.value, trig.duration)
            THEN Answer(Ok(recent.value.value.response), query)
            ELSE SendNew(query)
      [] trig.t = "Always" -> SendNew(<<>>)

\* get_response: the match on the trigger
MatchTrigger(p, recipe_id, trig) ==
    LET query == <<Call("database.get_last_request", p, recipe_id)>>
        recent == GetMostRecent
    IN
    CASE trig.t = "Never" ->
            IF recent.tag = "Err" THEN Answer(recent, query)
            ELSE IF recent.value = None THEN Answer(Err([err |-> "NoResponse"]), query)
            ELSE Answer(Ok(recent.value.value.response), query)
      [] trig.t = "NoHistory" ->
            IF recent.tag = "Err" THEN Answer(recent, query)
            ELSE IF recent.value # None THEN Answer(Ok(recent.value.value.response), query)
            ELSE SendNew(query)
      [] trig.t = "Expire" ->
            IF recent.tag = "Err" THEN Answer(recent, query)
            ELSE IF recent.value # None /\ NotExpired(recent.value.value, trig.duration)
            THEN Answer(Ok(recent.value.value.response), query)
            ELSE SendNew(query)
      [] trig.t = "Always" -> SendNew(<<>>)

GetResponseRecipeOnSend(p, recipe_id, trig) ==
    LET get_recipe == <<Call("recipes.get_recipe", p, recipe_id)>>
        matched == MatchTrigger(p, recipe_id, trig)
    IN
    IF recipe_id \notin DOMAIN Recipes /\ matched.do = "send"
    THEN Answer(Err([err |-> "RecipeUnknown", recipe_id |-> recipe_id]), get_recipe)
    ELSE [matched EXCEPT !.calls = get_recipe \o @]

\* get_response to its first await: the recipe is looked up first, whatever the trigger
GetResponse(p, recipe_id, trig) ==
    LET get_recipe == <<Call("recipes.get_recipe", p, recipe_id)>>
        matched == MatchTrigger(p, recipe_id, trig)
    IN
    IF recipe_id \notin DOMAIN Recipes
    THEN Answer(Err([err |-> "RecipeUnknown", recipe_id |-> recipe_id]), get_recipe)
    ELSE [matched EXCEPT !.calls = get_recipe \o @]

\* The source of a response
ResponseSource(result) ==
    IF result.tag = "Err" THEN [value |-> result, hint |-> None]
    ELSE [value |-> Ok(result.value.body), hint |-> FromResponse(result.value)]

\* A chain key whose id is in the collection, with source `type`
ChainOf(p, type) ==
    /\ Dispatched(p, "Chain")
    /\ KeyName(p) \in DOMAIN Chains(trigger)
    /\ Chains(trigger)[KeyName(p)].source.type = type

LookupChain(p) == Call("chains.get", p, KeyName(p))

\* ChainTemplateSource::render of an id that is not in the collection
ChainUnknown(p) ==
    /\ Dispatched(p, "Chain")
    /\ KeyName(p) \notin DOMAIN Chains(trigger)
    /\ futs' = Complete(p, ToChunk(WrapChain(KeyName(p),
                    Err([err |-> "ChainUnknown", chain_id |-> KeyName(p)]))))
    /\ calls' = Append(calls, LookupChain(p))
    /\ UNCHANGED <<viewVars, ctxVars, recursion_count, frames, results>>

\* RequestBuilder::build renders the templates of the recipe on the same context
Build(recipe) == Frame(recipe.url)

\* The calls of builder.build that the future p runs inside of
Reentries(p) ==
    Cardinality({ k \in 1..(Len(p) - 1) : futs[SubSeq(p, 1, k)].pc = "build" })

\* ChainSource::Request: get_response, to the await of builder.build
RequestChain(p) ==
    /\ ChainOf(p, "Request")
    /\ LET chain_id == KeyName(p)
           chain == Chains(trigger)[chain_id]
           got == GetResponse(p, chain.source.recipe, chain.source.trigger)
       IN
       /\ got.do = "send" => Reentries(p) < MaxReentry
       /\ calls' = Append(calls, LookupChain(p)) \o got.calls
                      \o (IF got.do = "send"
                          THEN <<Call("builder.build", p, chain.source.recipe)>> ELSE <<>>)
       /\ IF got.do = "send"
          THEN /\ futs' = [futs EXCEPT ![p].pc = "build", ![p].via = "send"]
               /\ frames' = (p :> Build(Recipes[chain.source.recipe])) @@ frames
          ELSE /\ futs' = [Complete(p, Resolved(chain_id, chain, ResponseSource(got.result)))
                             EXCEPT ![p].via = IF got.result.tag = "Ok" THEN "reuse" ELSE "none"]
               /\ UNCHANGED frames
    /\ UNCHANGED <<viewVars, ctxVars, recursion_count, results>>

BuildResumeEngineFirst(p) ==
    /\ p \in DOMAIN futs /\ futs[p].pc = "build" /\ IsNext(p)
    /\ frames[p].pc = "done"
    /\ LET chain_id == KeyName(p)
           chain == Chains(trigger)[chain_id]
           recipe_id == Recipes[chain.source.recipe].id
           Trigger(error) ==
               Err([err |-> "Trigger", recipe_id |-> recipe_id, error |-> error])
       IN
       IF http_engine = "none"
       THEN /\ futs' = Complete(p, Resolved(chain_id, chain,
                           ResponseSource(Trigger([err |-> "NotAllowed"]))))
            /\ UNCHANGED calls
       ELSE IF frames[p].res.tag = "Err"
       THEN /\ futs' = Complete(p, Resolved(chain_id, chain,
                           ResponseSource(Trigger([err |-> "Build",
                                                   error |-> frames[p].res.error]))))
            /\ UNCHANGED calls
       ELSE /\ futs' = [futs EXCEPT ![p].pc = "send"]
            /\ calls' = Append(calls, Call("http_engine.send", p, frames[p].res.value))
    /\ UNCHANGED <<viewVars, ctxVars, recursion_count, frames, results>>

\* send_request from the return of builder.build: the engine, and its send
BuildResume(p) ==
    /\ p \in DOMAIN futs /\ futs[p].pc = "build" /\ IsNext(p)
    /\ frames[p].pc = "done"
    /\ LET chain_id == KeyName(p)
           chain == Chains(trigger)[chain_id]
           recipe_id == Recipes[chain.source.recipe].id
           Trigger(error) ==
               Err([err |-> "Trigger", recipe_id |-> recipe_id, error |-> error])
       IN
       IF frames[p].res.tag = "Err"
       THEN /\ futs' = Complete(p, Resolved(chain_id, chain,
                           ResponseSource(Trigger([err |-> "Build",
                                                   error |-> frames[p].res.error]))))
            /\ UNCHANGED calls
       ELSE IF http_engine = "none"
       THEN /\ futs' = Complete(p, Resolved(chain_id, chain,
                           ResponseSource(Trigger([err |-> "NotAllowed"]))))
            /\ UNCHANGED calls
       ELSE /\ futs' = [futs EXCEPT ![p].pc = "send"]
            /\ calls' = Append(calls, Call("http_engine.send", p, frames[p].res.value))
    /\ UNCHANGED <<viewVars, ctxVars, recursion_count, frames, results>>

\* ChainSource::File: render_file, to the await of fs::read
FileChain(p) ==
    /\ ChainOf(p, "File")
    /\ futs' = [futs EXCEPT ![p].pc = "file"]
    /\ calls' = calls \o <<LookupChain(p),
                            Call("fs.read", p, Chains(trigger)[KeyName(p)].source.path)>>
    /\ UNCHANGED <<viewVars, ctxVars, recursion_count, frames, results>>

\* ChainSource::Command: render_command, to the await of the subprocess
CommandChain(p) ==
    /\ ChainOf(p, "Command")
    /\ LET chain_id == KeyName(p)
           chain == Chains(trigger)[chain_id]
           command == chain.source.command
       IN
       IF command = <<>>
       THEN /\ futs' = Complete(p, Resolved(chain_id, chain,
                           [value |-> Err([err |-> "CommandMissing"]), hint |-> None]))
            /\ calls' = Append(calls, LookupChain(p))
       ELSE /\ futs' = [futs EXCEPT ![p].pc = "command"]
            /\ calls' = calls \o <<LookupChain(p), Call("command.output", p, command)>>
    /\ UNCHANGED <<viewVars, ctxVars, recursion_count, frames, results>>

PromptChainLabelledById(p) ==
    /\ ChainOf(p, "Prompt")
    /\ futs' = [futs EXCEPT ![p].pc = "prompt"]
    /\ calls' = calls \o <<LookupChain(p),
                            Call("prompter.prompt", p,
                                 [label |-> KeyName(p),
                                  sensitive |-> Chains(trigger)[KeyName(p)].sensitive])>>
    /\ UNCHANGED <<viewVars, ctxVars, recursion_count, frames, results>>

\* ChainSource::Prompt: render_prompt, to the await of the reply
PromptChain(p) ==
    /\ ChainOf(p, "Prompt")
    /\ LET chain_id == KeyName(p)
           chain == Chains(trigger)[chain_id]
           label == IF chain.source.message # None THEN chain.source.message.value
                    ELSE chain_id
       IN
       /\ futs' = [futs EXCEPT ![p].pc = "prompt"]
       /\ calls' = calls \o <<LookupChain(p),
                               Call("prompter.prompt", p,
                                    [label |-> label, sensitive |-> chain.sensitive])>>
    /\ UNCHANGED <<viewVars, ctxVars, recursion_count, frames, results>>

-----------------------------------------------------------------------------
(* The pending operations.  The task observes a completion when it is woken, *)
(* that is when none of its futures can run.                                 *)

Suspended(p, pc) == p \in DOMAIN futs /\ futs[p].pc = pc /\ Runnable = {}

Woken(p, outcome) == [futs EXCEPT ![p].pc = "resume", ![p].io = outcome]

\* fs::read completes
FileRead(p) ==
    /\ Suspended(p, "file")
    /\ LET path == Chains(trigger)[KeyName(p)].source.path IN
       futs' = Woken(p, IF path \in DOMAIN Files THEN Ok(Files[path])
                        ELSE Err([err |-> "File", path |-> path]))
    /\ UNCHANGED <<viewVars, ctxVars, recursion_count, frames, calls, results>>

\* Command::output completes
CommandExit(p) ==
    /\ Suspended(p, "command")
    /\ LET command == Chains(trigger)[KeyName(p)].source.command IN
       futs' = Woken(p, IF command \in DOMAIN Programs THEN Ok(Programs[command])
                        ELSE Err([err |-> "Command", command |-> command]))
    /\ UNCHANGED <<viewVars, ctxVars, recursion_count, frames, calls, results>>

\* The prompter replies on the channel
PromptReply(p) ==
    /\ Suspended(p, "prompt")
    /\ futs' = Woken(p, Ok(Bytes(PromptReplyText, TRUE, FALSE)))
    /\ UNCHANGED <<viewVars, ctxVars, recursion_count, frames, calls, results>>

\* The prompter drops the sender without a reply
PromptDrop(p) ==
    /\ Suspended(p, "prompt")
    /\ futs' = Woken(p, Err([err |-> "PromptNoResponse"]))
    /\ UNCHANGED <<viewVars, ctxVars, recursion_count, frames, calls, results>>

\* http_engine.send completes
HttpSent(p) ==
    /\ Suspended(p, "send")
    /\ LET recipe_id == Recipes[Chains(trigger)[KeyName(p)].source.recipe].id IN
       futs' = Woken(p,
          IF http_engine = "ok"
          THEN Ok([end_time |-> now, response |-> NewResponse])
          ELSE Err([err |-> "Trigger", recipe_id |-> recipe_id,
                    error |-> [err |-> "Send"]]))
    /\ UNCHANGED <<viewVars, ctxVars, recursion_count, frames, calls, results>>

\* What the awaited operation of a chain resolved to
AwaitedSource(source, io) ==
    CASE source.type = "Request" ->
            ResponseSource(IF io.tag = "Ok" THEN Ok(io.value.response) ELSE io)
      [] source.type = "File" -> [value |-> io, hint |-> FromExtension(source.path)]
      [] source.type = "Command" -> [value |-> io, hint |-> None]
      [] source.type = "Prompt" -> [value |-> io, hint |-> None]

\* ChainTemplateSource::render, from the awaited source on
ChainResume(p) ==
    /\ p \in DOMAIN futs /\ futs[p].pc = "resume" /\ IsNext(p)
    /\ LET chain_id == KeyName(p)
           chain == Chains(trigger)[chain_id]
       IN futs' = Complete(p, Resolved(chain_id, chain,
                                       AwaitedSource(chain.source, futs[p].io)))
    /\ UNCHANGED <<viewVars, ctxVars, recursion_count, frames, calls, results>>

-----------------------------------------------------------------------------

\* The paths of the futures and frames a render can hold
Paths == DOMAIN futs \cup DOMAIN frames

Next ==
    \/ Render
    \/ Return
    \/ \E p \in Paths : StitchedEntry(p)
    \/ \E p \in Paths : RenderChunks(p)
    \/ \E p \in Paths : RawChunk(p)
    \/ \E p \in Paths : OverrideChunk(p)
    \/ \E p \in Paths : EnvironmentRender(p)
    \/ \E p \in Paths : FieldRender(p)
    \/ \E p \in Paths : FieldResume(p)
    \/ \E p \in Paths : ChainUnknown(p)
    \/ \E p \in Paths : RequestChain(p)
    \/ \E p \in Paths : BuildResume(p)
    \/ \E p \in Paths : FileChain(p)
    \/ \E p \in Paths : CommandChain(p)
    \/ \E p \in Paths : PromptChain(p)
    \/ \E p \in Paths : FileRead(p)
    \/ \E p \in Paths : CommandExit(p)
    \/ \E p \in Paths : PromptReply(p)
    \/ \E p \in Paths : PromptDrop(p)
    \/ \E p \in Paths : HttpSent(p)
    \/ \E p \in Paths : ChainResume(p)
    \/ \E p \in Paths : JoinAll(p)
    \/ \E p \in Paths : Stitch(p)

Spec == Init /\ [][Next]_vars

\* The executor runs a future that can run, and every pending operation of a
\* collaborator completes
FairSpec == Spec /\ WF_vars(Next)

-----------------------------------------------------------------------------
(* The profile pane and the profile list modal                             *)
(* (crates/slumber_tui/src/view/component/profile_select.rs)               *)

\* The lists of profiles a collection gives the pane
ProfileLists == { <<>>, <<"p1", "p2", "p3">> }

ItemsOf(state) == { state.items[i] : i \in DOMAIN state.items }

\* SelectState::builder(items).preselect_opt(id).build(): the given item when it
\* is in the list, else the first item, if any
Preselect(items, id) ==
    SelectState(items,
        IF id # None /\ id.value \in { items[i] : i \in DOMAIN items } THEN id
        ELSE IF items # <<>> THEN Some(items[1]) ELSE None)

\* SelectState::select(id)
SelectItem(state, id) ==
    IF id \in ItemsOf(state) THEN [state EXCEPT !.selected = Some(id)] ELSE state

\* Events
InputEvent(action) == [type |-> "Input", action |-> action]
LocalEvent(local) == [type |-> "Local", local |-> local]
SelectProfile(profile_id) == [is |-> "SelectProfile", profile_id |-> profile_id]
OtherLocal == [is |-> "Other"]
HttpSelectRequest(request) == [type |-> "HttpSelectRequest", request |-> request]
CloseModal == [type |-> "CloseModal"]

\* The actions an input event can be bound to
Actions == {"LeftClick", "Up", "Down", "Submit", "Cancel"}

\* event.action()
EventAction(event) == IF event.type = "Input" THEN Some(event.action) ELSE None

\* event.local::<SelectProfile>()
EventLocal(event) ==
    IF event.type = "Local" /\ event.local.is = "SelectProfile"
    THEN Some(event.local.profile_id) ELSE None

\* Update
Consumed == [update |-> "Consumed"]
Propagate(event) == [update |-> "Propagate", event |-> event]

\* ProfileListModal::new
ProfileListModal(items, selected) == Preselect(items, selected)

\* ProfilePane::new, with the persisted id of the selected profile
ProfilePane(items, persisted) == Preselect(items, persisted)

ViewInit ==
    /\ \E items \in ProfileLists :
       \E persisted \in {None} \cup { Some(id) : id \in {"p1", "p2", "p3", "gone"} } :
           profiles = ProfilePane(items, persisted)
    /\ modals = <<>>
    /\ events = <<>>
    /\ handled = NotHandled
    /\ tmpl = Template(<<>>)
    /\ selected_profile = None
    /\ overrides = NoOverrides
    /\ http_engine = "none"
    /\ database = "empty"
    /\ now = 1
    /\ trigger = DefaultTrigger
    /\ recursion_count = 0
    /\ frames = NoTasks
    /\ futs = NoTasks
    /\ calls = <<>>
    /\ results = <<>>

\* ProfilePane::open_modal: ViewContext::open_modal puts the modal on the queue
OpenModal == Append(modals, ProfileListModal(profiles.items, profiles.selected))

UpdateSilent(event, queue) ==
    /\ IF EventAction(event) = Some("LeftClick")
       THEN /\ modals' = OpenModal
            /\ events' = queue
            /\ handled' = [by |-> "update", event |-> event, returned |-> Consumed]
            /\ UNCHANGED profiles
       ELSE IF EventLocal(event) # None
       THEN /\ profiles' = SelectItem(profiles, EventLocal(event).value)
            /\ events' = queue
            /\ handled' = [by |-> "update", event |-> event, returned |-> Consumed]
            /\ UNCHANGED modals
       ELSE /\ events' = queue
            /\ handled' = [by |-> "update", event |-> event,
                           returned |-> Propagate(event)]
            /\ UNCHANGED <<profiles, modals>>
    /\ UNCHANGED renderVars

\* ProfilePane::update(event), `queue` being the events that wait on the ViewContext
Update(event, queue) ==
    /\ IF EventAction(event) = Some("LeftClick")
       THEN /\ modals' = OpenModal
            /\ events' = queue
            /\ handled' = [by |-> "update", event |-> event, returned |-> Consumed]
            /\ UNCHANGED profiles
       ELSE IF EventLocal(event) # None
       THEN /\ profiles' = SelectItem(profiles, EventLocal(event).value)
            /\ events' = Append(queue, HttpSelectRequest(None))
            /\ handled' = [by |-> "update", event |-> event, returned |-> Consumed]
            /\ UNCHANGED modals
       ELSE /\ events' = queue
            /\ handled' = [by |-> "update", event |-> event,
                           returned |-> Propagate(event)]
            /\ UNCHANGED <<profiles, modals>>
    /\ UNCHANGED renderVars

OnSubmitSelectFirst(profile) ==
    <<LocalEvent(SelectProfile(profile)), CloseModal>>

\* on_submit of the modal's select: the two events it pushes
OnSubmit(profile) ==
    <<CloseModal, LocalEvent(SelectProfile(profile))>>

\* An input event reaches the pane
Input(action) ==
    /\ action = "LeftClick" => Len(modals) < MaxModals
    /\ Update(InputEvent(action), events)

\* The selection moves inside the active modal
ModalSelect(profile) ==
    /\ modals # <<>>
    /\ profile \in ItemsOf(modals[1])
    /\ modals' = [modals EXCEPT ![1] = SelectItem(@, profile)]
    /\ handled' = [by |-> "select", profile_id |-> profile]
    /\ UNCHANGED <<profiles, events, renderVars>>

\* The selected item of the active modal is submitted
Submit ==
    /\ modals # <<>>
    /\ modals[1].selected # None
    /\ Len(events) + 2 <= MaxEvents
    /\ events' = events \o OnSubmit(modals[1].selected.value)
    /\ handled' = [by |-> "on_submit", profile_id |-> modals[1].selected.value]
    /\ UNCHANGED <<profiles, modals, renderVars>>

\* Some other component pushes an event
Push(event) ==
    /\ Len(events) < MaxEvents
    /\ events' = Append(events, event)
    /\ handled' = [by |-> "other"]
    /\ UNCHANGED <<profiles, modals, renderVars>>

\* The view takes the oldest event: CloseModal closes the active modal, every other
\* event reaches the pane
Deliver ==
    /\ events # <<>>
    /\ IF Head(events) = CloseModal
       THEN /\ modals' = IF modals = <<>> THEN modals ELSE Tail(modals)
            /\ events' = Tail(events)
            /\ handled' = [by |-> "close"]
            /\ UNCHANGED <<profiles, renderVars>>
       ELSE Update(Head(events), Tail(events))

ViewNext ==
    \/ \E action \in Actions : Input(action)
    \/ \E profile \in {"p1", "p2", "p3"} : ModalSelect(profile)
    \/ Submit
    \/ \E event \in {LocalEvent(OtherLocal), HttpSelectRequest(None)} : Push(event)
    \/ Deliver

ViewSpec == ViewInit /\ [][ViewNext]_vars

-----------------------------------------------------------------------------
(* Properties *)

Parent(p) == SubSeq(p, 1, Len(p) - 1)

IsKey(p) == futs[p].chunk.type = "Key"
Overridden(p) == KeyRaw(p) \in DOMAIN overrides
Finished(p) == p \in DOMAIN futs /\ futs[p].pc = "done"

\* The chain definition behind a key that is rendered from its chain
ChainKey(p) ==
    /\ IsKey(p) /\ futs[p].chunk.variant = "Chain" /\ ~Overridden(p)
    /\ KeyName(p) \in DOMAIN Chains(trigger)
DefOf(p) == Chains(trigger)[KeyName(p)]

\* `out` is an outcome of the key of future q and of no other kind of key
OwnOutcome(q, out) ==
    LET variant == futs[q].chunk.variant
        name == KeyName(q)
    IN
    IF Overridden(q)
    THEN out = [type |-> "Rendered", value |-> overrides[KeyRaw(q)], sensitive |-> FALSE]
    ELSE CASE variant = "Field" ->
                IF out.type = "Rendered" THEN ~out.sensitive
                ELSE \/ out.error.err \in {"NoProfileSelected", "ProfileUnknown"}
                     \/ out.error.err = "FieldUnknown" /\ out.error.field = name
                     \/ /\ out.error.err = "Nested"
                        /\ out.error.template = Profiles[selected_profile.value][name].src
           [] variant = "Chain" ->
                IF out.type = "Rendered" THEN out.sensitive = DefOf(q).sensitive
                ELSE out.error.err = "Chain" /\ out.error.chain_id = name
           [] variant = "Environment" ->
                IF out.type = "Rendered" THEN out.value = EnvVars[name[1]]
                ELSE /\ out.error.err = "EnvironmentVariable"
                     /\ out.error.variable = name[1]

\* C1: whatever the order in which the futures complete, render_chunks returns one
\* output chunk per input chunk, output i being that of input chunk i: Raw(span_i)
\* for a Raw chunk, and for a key the Rendered or Error outcome of that key.
C1_OneOutputPerChunkInOrder ==
    \A p \in DOMAIN frames :
        frames[p].pc = "stitch" =>
            LET chunks == frames[p].tmpl.chunks
                outs == frames[p].outs
            IN /\ Len(outs) = Len(chunks)
               /\ \A i \in 1..Len(chunks) :
                    IF chunks[i].type = "Raw"
                    THEN outs[i] = [type |-> "Raw", start |-> chunks[i].start,
                                    end |-> chunks[i].end]
                    ELSE /\ outs[i].type \in {"Rendered", "Error"}
                         /\ outs[i] = futs[p \o <<i>>].out
                         /\ OwnOutcome(p \o <<i>>, outs[i])

\* render_chunks has returned two different outcomes whose futures completed in the
\* opposite order
C1_Witness ==
    /\ <<>> \in DOMAIN frames /\ frames[<<>>].pc = "stitch"
    /\ Len(frames[<<>>].outs) = 2
    /\ frames[<<>>].outs[1].type = "Rendered"
    /\ frames[<<>>].outs[2].type = "Error"
    /\ futs[<<2>>].at < futs[<<1>>].at

\* Every key of the top-level template has an entry in the override map
KeysCovered ==
    \A i \in 1..Len(tmpl.chunks) :
        tmpl.chunks[i].type = "Key" =>
            KeyToString(tmpl.chunks[i].variant, Substring(tmpl, tmpl.chunks[i]))
                \in DOMAIN overrides

\* C2: when the override map has an entry for every key of the template, a render
\* calls no collaborator, starts no nested render, leaves the recursion counter
\* unchanged, yields no error, and each key's chunk is the override value with
\* sensitive = false.
C2_OverridesNeedNoCollaborator ==
    KeysCovered =>
        /\ calls = <<>>
        /\ recursion_count = 0
        /\ DOMAIN frames \subseteq {<<>>}
        /\ \A p \in DOMAIN futs :
              Finished(p) /\ IsKey(p) =>
                 futs[p].out = [type |-> "Rendered", value |-> overrides[KeyRaw(p)],
                                sensitive |-> FALSE]
        /\ \A i \in DOMAIN results : results[i].tag = "Ok"

\* A single key bound to the empty override rendered to the empty string, with no
\* profile selected
C2_Witness ==
    /\ KeysCovered
    /\ Len(tmpl.chunks) = 1 /\ tmpl.chunks[1].type = "Key"
    /\ selected_profile = None
    /\ results # <<>> /\ results[1] = [tag |-> "Ok", value |-> <<>>]

\* A Request chain key whose recipe is in the collection, past get_response's match
RequestKey(p) ==
    /\ p \in DOMAIN futs /\ ChainKey(p)
    /\ DefOf(p).source.type = "Request"
    /\ DefOf(p).source.recipe \in DOMAIN Recipes
    /\ futs[p].pc # "start"

\* The decision table of the trigger resolver
TableSays(trig) ==
    LET present == database = "record"
        fresh == StoredRecord.end_time + trig.duration >= now
    IN CASE trig.t = "Never" -> IF present THEN "reuse" ELSE "NoResponse"
         [] trig.t = "NoHistory" -> IF present THEN "reuse" ELSE "send"
         [] trig.t = "Expire" -> IF present /\ fresh THEN "reuse" ELSE "send"
         [] trig.t = "Always" -> "send"

\* The chunk a chain renders from a given response
ChunkFrom(p, response) ==
    Resolved(KeyName(p), DefOf(p),
             [value |-> Ok(response.body), hint |-> response.content_type])

\* C3: for a Request chain whose recipe exists the source of the response follows
\* the decision table; a reused response is the stored record's, and a sent
\* request never ends in the stored record's response.
C3_TriggerDecisionTable ==
    \A p \in DOMAIN futs :
        RequestKey(p) /\ database # "fail" =>
            CASE TableSays(DefOf(p).source.trigger) = "reuse" ->
                    /\ futs[p].via = "reuse"
                    /\ Finished(p)
                    /\ futs[p].out = ChunkFrom(p, StoredRecord.response)
              [] TableSays(DefOf(p).source.trigger) = "NoResponse" ->
                    /\ futs[p].via = "none"
                    /\ Finished(p)
                    /\ futs[p].out = [type |-> "Error", error |->
                           [err |-> "Chain", chain_id |-> KeyName(p),
                            error |-> [err |-> "NoResponse"]]]
              [] TableSays(DefOf(p).source.trigger) = "send" ->
                    /\ futs[p].via = "send"
                    /\ Finished(p) =>
                          \/ futs[p].out = ChunkFrom(p, NewResponse)
                          \/ /\ futs[p].out.type = "Error"
                             /\ futs[p].out.error.error.err = "Trigger"

\* An Expire chain reused the record at end_time + d = now
C3_Witness ==
    \E p \in DOMAIN futs :
        /\ RequestKey(p) /\ Finished(p)
        /\ DefOf(p).source.trigger = trigger
        /\ trigger.t = "Expire" /\ database = "record"
        /\ StoredRecord.end_time + trigger.duration = now
        /\ futs[p].via = "reuse"
        /\ futs[p].out.type = "Rendered" /\ futs[p].out.value = <<"old">>


\* The names of the field keys of a template
FieldsOf(template) ==
    { Substring(template, template.chunks[i]) :
        i \in { j \in 1..Len(template.chunks) : template.chunks[j].variant = "Field" } }

\* Rendering field f takes n field renders nested in one another
RECURSIVE Nests(_, _)
Nests(f, n) ==
    /\ selected_profile # None
    /\ selected_profile.value \in DOMAIN Profiles
    /\ f \in DOMAIN Profiles[selected_profile.value]
    /\ f \notin DOMAIN overrides
    /\ \/ n <= 1
       \/ \E g \in FieldsOf(Profiles[selected_profile.value][f]) : Nests(g, n - 1)

\* The template's field references are cyclic or nest deeper than the limit
TooDeep == \E f \in FieldsOf(tmpl) : Nests(f, RECURSION_LIMIT + 1)

Running == DOMAIN frames # {}

\* C4: the first render on a context of a template whose field references are
\* cyclic or nest deeper than RECURSION_LIMIT returns an error; every render of
\* it that starts returns, and the recursion counter stays bounded (each template of the
\* profile holds at most one field key, so past the limit only the keys of the
\* top-level template still count).
C4_DeepRenderEndsInError ==
    /\ [](TooDeep /\ results # <<>> => results[1].tag = "Err")
    /\ [](recursion_count < RECURSION_LIMIT + MaxChunks)
    /\ (TooDeep /\ Running ~> ~Running)

\* A render of a cyclic field, and one of a field nesting deeper than the limit,
\* returned an error
C4_Witness ==
    /\ TooDeep
    /\ \E f \in {<<"ping">>, <<"d0">>} : f \in FieldsOf(tmpl)
    /\ recursion_count >= RECURSION_LIMIT
    /\ results # <<>> /\ results[1].tag = "Err"


\* The text output chunk i of a frame stands for
TextOf(template, out) ==
    IF out.type = "Raw" THEN SubSeq(template.src, out.start + 1, out.end) ELSE out.value

RECURSIVE Concat(_, _, _)
Concat(template, outs, n) ==
    IF n = 0 THEN <<>> ELSE Concat(template, outs, n - 1) \o TextOf(template, outs[n])

ErrorsIn(outs) == { i \in DOMAIN outs : outs[i].type = "Error" }
Lowest(S) == CHOOSE i \in S : \A j \in S : i <= j

\* What the claim says a stitched render of `frame` returns
StitchedAsClaimed(frame) ==
    /\ ErrorsIn(frame.outs) = {} =>
          frame.res = [tag |-> "Ok", value |-> Concat(frame.tmpl, frame.outs, Len(frame.outs))]
    /\ ErrorsIn(frame.outs) # {} =>
          frame.res = [tag |-> "Err", error |-> frame.outs[Lowest(ErrorsIn(frame.outs))].error]
    /\ (\A i \in DOMAIN frame.tmpl.chunks : frame.tmpl.chunks[i].type = "Raw") =>
          frame.res = [tag |-> "Ok", value |-> frame.tmpl.src]

\* C5 as claimed: every stitched render is the concatenation of its chunks or its
\* lowest-index error, and a template without keys renders to its own string.
C5_AsClaimed ==
    \A p \in DOMAIN frames : frames[p].pc = "done" => StitchedAsClaimed(frames[p])

\* C5, amended: a stitched render entered with the recursion counter below
\* RECURSION_LIMIT is the concatenation in input order of its Raw substrings and
\* Rendered values, or the error of its lowest-index Error chunk whichever chunk
\* failed first, so that a template without keys renders to its own string; one
\* entered with the counter at or above the limit returns RecursionLimit and
\* renders no chunk.
C5_StitchedPastTheEntryCheck ==
    \A p \in DOMAIN frames :
        frames[p].pc = "done" =>
            IF frames[p].loaded < RECURSION_LIMIT
            THEN /\ Len(frames[p].outs) = Len(frames[p].tmpl.chunks)
                 /\ StitchedAsClaimed(frames[p])
            ELSE /\ frames[p].res = [tag |-> "Err", error |-> [err |-> "RecursionLimit"]]
                 /\ frames[p].outs = <<>>
                 /\ \A q \in DOMAIN futs : Parent(q) # p

\* Two chunks failed, the second one first, and the render returned the error of
\* the first chunk
C5_Witness ==
    /\ <<>> \in DOMAIN frames /\ frames[<<>>].pc = "done"
    /\ frames[<<>>].loaded < RECURSION_LIMIT
    /\ ErrorsIn(frames[<<>>].outs) = {1, 2}
    /\ futs[<<2>>].at < futs[<<1>>].at
    /\ frames[<<>>].outs[1] # frames[<<>>].outs[2]
    /\ frames[<<>>].res = [tag |-> "Err", error |-> frames[<<>>].outs[1].error]

\* C6: a Rendered chunk is sensitive exactly when its key is a chain key that is
\* not overridden and whose chain is defined sensitive, whatever the other chunks
\* of the template are.
C6_SensitiveIffSensitiveChain ==
    \A p \in DOMAIN futs :
        Finished(p) /\ IsKey(p) /\ futs[p].out.type = "Rendered" =>
            (futs[p].out.sensitive <=> (ChainKey(p) /\ DefOf(p).sensitive))

\* render_chunks returned a sensitive chunk beside a chunk that is not sensitive
C6_Witness ==
    /\ <<>> \in DOMAIN frames /\ frames[<<>>].pc = "stitch"
    /\ Len(frames[<<>>].outs) = 2
    /\ \A i \in 1..2 : frames[<<>>].outs[i].type = "Rendered"
    /\ IsKey(<<1>>) /\ IsKey(<<2>>)
    /\ frames[<<>>].outs[1].sensitive /\ ~frames[<<>>].outs[2].sensitive

\* A Request chain key for which get_response chose to send, finished, on a
\* context without HTTP engine
SentWithoutEngine(p) ==
    /\ RequestKey(p) /\ Finished(p)
    /\ futs[p].via = "send"
    /\ http_engine = "none"

NotAllowedFor(p) ==
    [type |-> "Error", error |->
        [err |-> "Chain", chain_id |-> KeyName(p), error |->
            [err |-> "Trigger", recipe_id |-> DefOf(p).source.recipe,
             error |-> [err |-> "NotAllowed"]]]]

\* C7 as claimed: send-new without an HTTP engine ends in Trigger{r, NotAllowed},
\* whatever the templates of the recipe contain.
C7_AsClaimed ==
    \A p \in DOMAIN futs : SentWithoutEngine(p) => futs[p].out = NotAllowedFor(p)

\* C7, amended: when send-new is chosen on a context without HTTP engine and the
\* request of recipe r builds, the chunk is Chain{c, Trigger{r, NotAllowed}}; when
\* the build fails it is Chain{c, Trigger{r, Build}}, the engine not being looked
\* at; in both cases nothing is sent.
C7_NotAllowedAfterTheBuild ==
    \A p \in DOMAIN futs :
        SentWithoutEngine(p) =>
            /\ IF frames[p].res.tag = "Ok"
               THEN futs[p].out = NotAllowedFor(p)
               ELSE futs[p].out =
                      [NotAllowedFor(p) EXCEPT !.error.error.error =
                          [err |-> "Build", error |-> frames[p].res.error]]
            /\ \A i \in DOMAIN calls : calls[i].op # "http_engine.send"

\* The request of the recipe was built and the chunk is NotAllowed
C7_Witness ==
    \E p \in DOMAIN futs :
        /\ SentWithoutEngine(p)
        /\ frames[p].res.tag = "Ok"
        /\ futs[p].out = NotAllowedFor(p)

\* A Request chain key whose recipe is not in the collection, past get_response
DeletedRecipeKey(p) ==
    /\ p \in DOMAIN futs /\ ChainKey(p)
    /\ DefOf(p).source.type = "Request"
    /\ DefOf(p).source.recipe \notin DOMAIN Recipes
    /\ futs[p].pc # "start"

CallsBy(p) == { calls[i].op : i \in { j \in DOMAIN calls : calls[j].by = p } }

\* C8: under every trigger, a Request chain whose recipe is not in the collection
\* fails with Chain{chain_id, RecipeUnknown}; the database is not queried and no
\* request is built or sent, record in history or not.
C8_RecipeUnknownBeforeHistory ==
    \A p \in DOMAIN futs :
        DeletedRecipeKey(p) =>
            /\ Finished(p)
            /\ futs[p].out = [type |-> "Error", error |->
                  [err |-> "Chain", chain_id |-> KeyName(p), error |->
                      [err |-> "RecipeUnknown", recipe_id |-> DefOf(p).source.recipe]]]
            /\ CallsBy(p) \cap {"database.get_last_request", "builder.build",
                                "http_engine.send"} = {}

\* The recipe is gone, history holds a record and the trigger only needs history
C8_Witness ==
    \E p \in DOMAIN futs :
        /\ DeletedRecipeKey(p)
        /\ database = "record" /\ trigger.t = "Never"
        /\ futs[p].out.type = "Error"

\* No chunk of the template asks the user, whose answers may differ
NoPromptKey ==
    \A i \in DOMAIN tmpl.chunks :
        tmpl.chunks[i].variant = "Chain" =>
            Substring(tmpl, tmpl.chunks[i]) \notin
                {<<"ask">>, <<"askm">>, <<"asksel">>, <<"askjson">>}

ChainErrors ==
    {"ChainUnknown", "RecipeUnknown", "NoResponse", "Database", "Trigger", "File",
     "CommandMissing", "Command", "PromptNoResponse", "UnknownContentType",
     "ParseResponse", "InvalidUtf8", "Query"}

\* C10: every failure of a chain key is Chain{chain_id, inner} with chain_id the id
\* of the key; an id without definition fails with ChainUnknown, nothing but the
\* lookup in the collection having been done for it.
C10_ChainErrorsNameTheirChain ==
    \A p \in DOMAIN futs :
        Finished(p) /\ IsKey(p) /\ futs[p].chunk.variant = "Chain" /\ ~Overridden(p) =>
            /\ futs[p].out.type = "Error" =>
                  /\ futs[p].out.error.err = "Chain"
                  /\ futs[p].out.error.chain_id = KeyName(p)
                  /\ futs[p].out.error.error.err \in ChainErrors
            /\ KeyName(p) \notin DOMAIN Chains(trigger) =>
                  /\ futs[p].out = [type |-> "Error", error |->
                        [err |-> "Chain", chain_id |-> KeyName(p), error |->
                            [err |-> "ChainUnknown", chain_id |-> KeyName(p)]]]
                  /\ CallsBy(p) = {"chains.get"}

\* Two chains of one template failed, each error naming its own chain
C10_Witness ==
    /\ <<>> \in DOMAIN frames /\ frames[<<>>].pc = "stitch"
    /\ ErrorsIn(frames[<<>>].outs) = {1, 2}
    /\ frames[<<>>].outs[1].error.err = "Chain"
    /\ frames[<<>>].outs[2].error.err = "Chain"
    /\ frames[<<>>].outs[1].error.chain_id # frames[<<>>].outs[2].error.chain_id


\* A Prompt chain key that is not overridden, past the dispatch
PromptKey(p) ==
    /\ p \in DOMAIN futs /\ ChainKey(p)
    /\ DefOf(p).source.type = "Prompt"
    /\ futs[p].pc # "start"

\* The prompts future p sent to the prompter
PromptsBy(p) ==
    { i \in DOMAIN calls : calls[i].by = p /\ calls[i].op = "prompter.prompt" }

\* One prompt with the chain's label and flag, and no completion before the answer
OnePromptThenAnAnswer(p) ==
    /\ Cardinality(PromptsBy(p)) = 1
    /\ \A i \in PromptsBy(p) :
          calls[i].arg =
             [label |-> IF DefOf(p).source.message = None THEN KeyName(p)
                        ELSE DefOf(p).source.message.value,
              sensitive |-> DefOf(p).sensitive]
    /\ futs[p].pc = "prompt" => futs[p].io = Pending /\ futs[p].out = Pending
    /\ Finished(p) => futs[p].io # Pending
    /\ Finished(p) /\ futs[p].io.tag = "Err" =>
          futs[p].out = [type |-> "Error", error |->
              [err |-> "Chain", chain_id |-> KeyName(p),
               error |-> [err |-> "PromptNoResponse"]]]

ReplyIsTheValue(p) ==
    Finished(p) /\ futs[p].io.tag = "Ok" =>
        futs[p].out = [type |-> "Rendered", value |-> futs[p].io.value.text,
                       sensitive |-> DefOf(p).sensitive]

\* C11 as claimed: whatever the chain defines, the reply of the prompter is the
\* value of the chunk.
C11_AsClaimed ==
    \A p \in DOMAIN futs : PromptKey(p) => OnePromptThenAnAnswer(p) /\ ReplyIsTheValue(p)

\* C11, amended: each render of a Prompt chain key that is not overridden sends one
\* Prompt, labelled with the chain's message or else its id and carrying the chain's
\* sensitive flag; the chunk completes only after the reply or the drop of the
\* sender; a drop gives Chain{chain_id, PromptNoResponse}; a reply is the chunk's
\* value when the chain has no selector; when it has one the reply goes through
\* content type and selector like the bytes of any source: without a content type
\* in the chain definition the chunk fails with UnknownContentType, and a reply
\* that does not parse fails with ParseResponse.
C11_OnePromptPerRender ==
    \A p \in DOMAIN futs :
        PromptKey(p) =>
            /\ OnePromptThenAnAnswer(p)
            /\ DefOf(p).selector = None => ReplyIsTheValue(p)
            /\ DefOf(p).selector # None /\ Finished(p) /\ futs[p].io.tag = "Ok" =>
                  /\ futs[p].out.type = "Error"
                  /\ futs[p].out.error.err = "Chain"
                  /\ futs[p].out.error.chain_id = KeyName(p)
                  /\ futs[p].out.error.error.err =
                        IF DefOf(p).content_type = None THEN "UnknownContentType"
                        ELSE "ParseResponse"

\* Two prompts of one template, one answered and one dropped
C11_Witness ==
    /\ PromptKey(<<1>>) /\ PromptKey(<<2>>)
    /\ Finished(<<1>>) /\ Finished(<<2>>)
    /\ futs[<<1>>].out.type = "Rendered" /\ futs[<<1>>].out.value = PromptReplyText
    /\ futs[<<2>>].out.type = "Error"
    /\ Len(calls) = 4


\* p is an Expire chain whose record has not expired and q a Never chain of the
\* same recipe, both past get_response, with the same record in history
ExpireBesideNever(p, q) ==
    /\ RequestKey(p) /\ RequestKey(q)
    /\ DefOf(p).source.recipe = DefOf(q).source.recipe
    /\ DefOf(p).source.trigger.t = "Expire"
    /\ DefOf(q).source.trigger.t = "Never"
    /\ database = "record"
    /\ StoredRecord.end_time + DefOf(p).source.trigger.duration >= now

\* C12: with the same record in history, an Expire(d) chain with end_time + d >= now
\* and a Never chain return the same response, the stored one, and neither builds
\* nor sends a request.
C12_FreshExpireIsNever ==
    \A p, q \in DOMAIN futs :
        ExpireBesideNever(p, q) =>
            /\ Finished(p) /\ Finished(q)
            /\ futs[p].via = "reuse" /\ futs[q].via = "reuse"
            /\ futs[p].out.type = "Rendered"
            /\ futs[p].out.value = StoredRecord.response.body.text
            /\ futs[q].out.value = futs[p].out.value
            /\ (CallsBy(p) \cup CallsBy(q)) \cap {"builder.build", "http_engine.send"} = {}
            /\ p \notin DOMAIN frames /\ q \notin DOMAIN frames

\* The two chains of one template answered at the instant the record expires
C12_Witness ==
    /\ ExpireBesideNever(<<1>>, <<2>>)
    /\ StoredRecord.end_time + trigger.duration = now
    /\ frames[<<>>].pc = "stitch"
    /\ frames[<<>>].outs[1] = frames[<<>>].outs[2]
    /\ frames[<<>>].outs[1].type = "Rendered"


\* The bytes the source of finished chain key p resolved to and the content type
\* detected from it, or None when the source failed
SourceOf(p) ==
    LET source == DefOf(p).source
        Of(response) == Some([bytes |-> response.body, hint |-> response.content_type])
    IN CASE source.type = "Request" ->
               IF futs[p].via = "reuse" THEN Of(StoredRecord.response)
               ELSE IF futs[p].io.tag = "Ok" THEN Of(futs[p].io.value.response)
               ELSE None
         [] source.type = "File" ->
               IF futs[p].io.tag = "Ok"
               THEN Some([bytes |-> futs[p].io.value,
                          hint |-> IF source.path.ext = "json" THEN Some("json") ELSE None])
               ELSE None
         [] source.type \in {"Command", "Prompt"} ->
               IF futs[p].io.tag = "Ok"
               THEN Some([bytes |-> futs[p].io.value, hint |-> None])
               ELSE None

ChainErrorOf(out) == IF out.type = "Error" THEN out.error.error.err ELSE "none"

\* C13: with a selector the bytes are parsed as the chain's content_type when it has
\* one and else as the type detected from the source (header, extension; none for
\* command and prompt), and the chunk fails with UnknownContentType when there is
\* neither; without a selector the bytes are decoded as UTF-8 whatever the content
\* types are, and the chunk is never UnknownContentType nor ParseResponse.
C13_ContentTypeOnlyForSelectors ==
    \A p \in DOMAIN futs :
        Finished(p) /\ ChainKey(p) /\ SourceOf(p) # None =>
            LET chain == DefOf(p)
                src == SourceOf(p).value
                used == IF chain.content_type # None THEN chain.content_type ELSE src.hint
            IN
            /\ DefOf(p).source.type \in {"Command", "Prompt"} => src.hint = None
            /\ IF chain.selector # None
               THEN CASE used = None -> ChainErrorOf(futs[p].out) = "UnknownContentType"
                      [] used = Some("json") /\ src.bytes.json ->
                            ChainErrorOf(futs[p].out) \in {"none", "Query"}
                      [] OTHER -> ChainErrorOf(futs[p].out) = "ParseResponse"
               ELSE IF src.bytes.utf8
                    THEN futs[p].out = [type |-> "Rendered", value |-> src.bytes.text,
                                        sensitive |-> chain.sensitive]
                    ELSE ChainErrorOf(futs[p].out) = "InvalidUtf8"

\* The file with a recognised extension was parsed as the content type the chain
\* gives instead, and failed to parse
C13_Witness ==
    \E p \in DOMAIN futs :
        /\ Finished(p) /\ ChainKey(p) /\ SourceOf(p) # None
        /\ DefOf(p).selector # None
        /\ DefOf(p).content_type = Some("other")
        /\ SourceOf(p).value.hint = Some("json")
        /\ SourceOf(p).value.bytes.json
        /\ ChainErrorOf(futs[p].out) = "ParseResponse"


\* A field key that is not overridden
FieldKey(p) ==
    /\ p \in DOMAIN futs /\ IsKey(p)
    /\ futs[p].chunk.variant = "Field" /\ ~Overridden(p)

\* The error the profile lookup of field key p ends in, or None when it succeeds
LookupError(p) ==
    IF selected_profile = None THEN Some([err |-> "NoProfileSelected"])
    ELSE IF selected_profile.value \notin DOMAIN Profiles
    THEN Some([err |-> "ProfileUnknown", profile_id |-> selected_profile.value])
    ELSE IF KeyName(p) \notin DOMAIN Profiles[selected_profile.value]
    THEN Some([err |-> "FieldUnknown", field |-> KeyName(p)])
    ELSE None

\* The step in which field key p is rendered
FieldStep(p) == FieldKey(p) /\ futs[p].pc = "start" /\ futs'[p].pc # "start"

\* C14: a field key that is not overridden fails with NoProfileSelected without a
\* selected profile, else with ProfileUnknown{id} when the profile is not in the
\* collection, else with FieldUnknown{f} when the profile has no such field; the
\* step that fails so leaves the recursion counter as it is and starts no render.
C14_FieldLookupErrors ==
    /\ [](\A p \in DOMAIN futs :
            FieldKey(p) /\ futs[p].pc # "start" /\ LookupError(p) # None =>
                /\ Finished(p)
                /\ futs[p].out = [type |-> "Error", error |-> LookupError(p).value]
                /\ p \notin DOMAIN frames)
    /\ [][\A p \in DOMAIN futs :
            FieldStep(p) /\ LookupError(p) # None =>
                /\ recursion_count' = recursion_count
                /\ frames' = frames]_vars

\* Without a selected profile a field that no profile has failed with
\* NoProfileSelected, and a render of it returned with the counter still at 0
C14_Witness ==
    /\ selected_profile = None /\ overrides = <<>>
    /\ tmpl = Template(<<Field("nof")>>)
    /\ results # <<>> /\ results[1] = [tag |-> "Err", error |-> [err |-> "NoProfileSelected"]]
    /\ recursion_count = 0


\* Field key p found its template and started its recursive render when the counter
\* was at or above the limit already (the render read the counter one higher)
FieldPastTheLimit(p) ==
    /\ FieldKey(p) /\ LookupError(p) = None
    /\ p \in DOMAIN frames /\ frames[p].pc # "entry"
    /\ frames[p].loaded > RECURSION_LIMIT

NothingDispatchedIn(p) ==
    /\ frames[p].outs = <<>>
    /\ \A q \in DOMAIN futs : Parent(q) # p

\* C15 as claimed: the error of such a field key is RecursionLimit.
C15_AsClaimed ==
    \A p \in DOMAIN futs :
        FieldPastTheLimit(p) =>
            /\ NothingDispatchedIn(p)
            /\ Finished(p) =>
                  futs[p].out = [type |-> "Error", error |-> [err |-> "RecursionLimit"]]

\* C15, amended: a field key whose profile lookup succeeds and which is rendered
\* with the counter at or above RECURSION_LIMIT fails with Nested{template of the
\* field, RecursionLimit}, and no chunk of the field's template is dispatched.
C15_NestedRecursionLimit ==
    \A p \in DOMAIN futs :
        FieldPastTheLimit(p) =>
            /\ NothingDispatchedIn(p)
            /\ frames[p].pc = "done"
            /\ frames[p].res = [tag |-> "Err", error |-> [err |-> "RecursionLimit"]]
            /\ Finished(p) =>
                  futs[p].out = [type |-> "Error", error |->
                      [err |-> "Nested",
                       template |-> Profiles[selected_profile.value][KeyName(p)].src,
                       error |-> [err |-> "RecursionLimit"]]]

\* A field whose template holds a key was rendered past the limit and failed
C15_Witness ==
    \E p \in DOMAIN futs :
        /\ FieldPastTheLimit(p) /\ Finished(p)
        /\ \E i \in DOMAIN frames[p].tmpl.chunks : frames[p].tmpl.chunks[i].type = "Key"
        /\ futs[p].out.type = "Error"

\* The field keys whose profile lookup succeeded: their recursive render was entered
FieldEntries == { p \in DOMAIN futs : FieldKey(p) /\ p \in DOMAIN frames }

\* The first render on the context, not yet returned to its caller
FirstRender == results = <<>> /\ Running

\* C16: during the first render on a fresh context the recursion counter, 0 at the
\* start, equals the number of field keys whose lookup succeeded and whose recursive
\* render was entered; a step adds 1 when it enters such a render and 0 otherwise
\* (raw chunks, overrides, environment and chain keys, failed lookups), and the
\* counter never decreases.
C16_CounterCountsFieldEntries ==
    /\ [](results = <<>> /\ ~Running => recursion_count = 0)
    /\ [](FirstRender => recursion_count = Cardinality(FieldEntries))
    /\ [][recursion_count' =
            IF \E p \in DOMAIN futs : FieldStep(p) /\ LookupError(p) = None
            THEN recursion_count + 1 ELSE recursion_count]_vars

\* "{{name}}" with name = "{{greeting}}" and greeting = "Hi" rendered to "Hi" with
\* the counter at 2
C16_Witness ==
    /\ selected_profile = Some("p1") /\ overrides = <<>>
    /\ tmpl = Template(<<Field("name")>>)
    /\ FirstRender
    /\ frames[<<>>].pc = "done" /\ frames[<<>>].res = [tag |-> "Ok", value |-> <<"Hi">>]
    /\ recursion_count = 2


\* The first render on the context has produced a string
FirstRenderOk ==
    /\ FirstRender
    /\ frames[<<>>].pc = "done" /\ frames[<<>>].res.tag = "Ok"

\* C17: when the first render on a fresh context returns a string, every field
\* render of its call tree, siblings included, was entered with the counter below
\* RECURSION_LIMIT and succeeded, there are fewer than RECURSION_LIMIT of them, and
\* the counter ends below RECURSION_LIMIT.
C17_LimitBoundsAllFieldRenders ==
    FirstRenderOk =>
        /\ \A p \in FieldEntries :
              /\ frames[p].loaded < RECURSION_LIMIT
              /\ frames[p].res.tag = "Ok"
        /\ Cardinality(FieldEntries) < RECURSION_LIMIT
        /\ recursion_count < RECURSION_LIMIT

\* A render with sibling field keys returned a string with the counter one below
\* the limit
C17_Witness ==
    /\ FirstRenderOk
    /\ FieldKey(<<1>>) /\ FieldKey(<<2>>)
    /\ recursion_count = RECURSION_LIMIT - 1


\* Every field key of the template resolves, and every chain of nested field
\* references that starts at one of them is shorter than RECURSION_LIMIT
ShallowFields ==
    /\ selected_profile # None
    /\ selected_profile.value \in DOMAIN Profiles
    /\ \A f \in FieldsOf(tmpl) :
          /\ f \in DOMAIN Profiles[selected_profile.value]
          /\ ~Nests(f, RECURSION_LIMIT)

\* C18: the first render on a fresh context of a template whose nested field
\* references are all shallower than RECURSION_LIMIT has none of its stitched
\* renders refused with RecursionLimit, however many field keys it holds.
C18_OnlyDepthIsLimited ==
    FirstRender /\ ShallowFields =>
        \A p \in DOMAIN frames :
            frames[p].res # [tag |-> "Err", error |-> [err |-> "RecursionLimit"]]


\* The positions in the log of the calls of `op` that future p made
CallsOf(p, op) == { i \in DOMAIN calls : calls[i].by = p /\ calls[i].op = op }

Queries(p) == CallsOf(p, "database.get_last_request")
Builds(p) == CallsOf(p, "builder.build")
Sends(p) == CallsOf(p, "http_engine.send")

\* History holds no record the trigger can use
NoUsableRecord(trig) ==
    \/ database = "empty"
    \/ /\ database = "record" /\ trig.t = "Expire"
       /\ ~(StoredRecord.end_time + trig.duration >= now)

\* C19: the trigger resolver of a Request chain whose recipe exists never queries
\* the database under Always, so that no Database error comes of it; neither
\* builds nor sends under Never; and under NoHistory and Expire queries the
\* database once, and builds a request only after that query returned no usable
\* record.
C19_TriggerTouchesWhatItUses ==
    \A p \in DOMAIN futs :
        RequestKey(p) =>
            LET trig == DefOf(p).source.trigger IN
            CASE trig.t = "Always" ->
                    /\ Queries(p) = {}
                    /\ Finished(p) => ChainErrorOf(futs[p].out) # "Database"
              [] trig.t = "Never" ->
                    /\ Builds(p) = {} /\ Sends(p) = {}
                    /\ p \notin DOMAIN frames
              [] trig.t \in {"NoHistory", "Expire"} ->
                    /\ Cardinality(Queries(p)) = 1
                    /\ Cardinality(Builds(p)) <= 1
                    /\ \A b \in Builds(p) :
                          /\ NoUsableRecord(trig)
                          /\ \A q \in Queries(p) : q < b
                    /\ (Builds(p) = {}) = (p \notin DOMAIN frames)
                    /\ Sends(p) # {} => Builds(p) # {}

\* An Always chain rendered a fresh response on a context whose database fails
C19_Witness ==
    \E p \in DOMAIN futs :
        /\ RequestKey(p) /\ Finished(p)
        /\ DefOf(p).source.trigger.t = "Always"
        /\ database = "fail"
        /\ futs[p].out.type = "Rendered" /\ futs[p].out.value = NewResponse.body.text
        /\ Sends(p) # {}

\* What is left of the output of a Request chain once its trigger resolver failed
TriggerFailure(p, error) ==
    [type |-> "Error", error |->
        [err |-> "Chain", chain_id |-> KeyName(p), error |-> error]]

\* C20: a failing database lookup under Never, NoHistory or Expire gives
\* Database{cause} and no request is built or sent; a failing build gives
\* Trigger{recipe_id, Build} and nothing is sent; a failing send gives
\* Trigger{recipe_id, Send}, not the response of the record in history.
C20_FailuresAreNotMasked ==
    \A p \in DOMAIN futs :
        RequestKey(p) =>
            LET trig == DefOf(p).source.trigger
                recipe_id == DefOf(p).source.recipe
            IN
            /\ database = "fail" /\ trig.t # "Always" =>
                  /\ Finished(p)
                  /\ futs[p].out = TriggerFailure(p, [err |-> "Database"])
                  /\ Builds(p) = {} /\ Sends(p) = {}
                  /\ p \notin DOMAIN frames
            /\ p \in DOMAIN frames /\ frames[p].pc = "done" /\ frames[p].res.tag = "Err"
                 /\ futs[p].pc # "build" =>
                  /\ Finished(p)
                  /\ futs[p].out = TriggerFailure(p,
                        [err |-> "Trigger", recipe_id |-> recipe_id,
                         error |-> [err |-> "Build", error |-> frames[p].res.error]])
                  /\ Sends(p) = {}
            /\ Sends(p) # {} /\ http_engine = "fail" /\ Finished(p) =>
                  /\ futs[p].out = TriggerFailure(p,
                        [err |-> "Trigger", recipe_id |-> recipe_id,
                         error |-> [err |-> "Send"]])
                  /\ futs[p].via # "reuse"

\* The send of an Expire chain failed while history held the expired record, and
\* the chunk is the Send error
C20_Witness ==
    \E p \in DOMAIN futs :
        /\ RequestKey(p) /\ Finished(p)
        /\ DefOf(p).source.trigger.t = "Expire"
        /\ database = "record" /\ http_engine = "fail"
        /\ Sends(p) # {}
        /\ futs[p].out.type = "Error"
        /\ futs[p].out.error.error.error.err = "Send"

-----------------------------------------------------------------------------
(* Re-entry through the request builder *)

\* q is a future inside the render that future p awaits
Inside(p, q) == Len(p) < Len(q) /\ SubSeq(q, 1, Len(p)) = p

\* The future p awaits builder.build, whose render has passed its entry check
Building(p) ==
    /\ p \in DOMAIN futs /\ futs[p].pc = "build"
    /\ p \in DOMAIN frames /\ frames[p].pc # "entry"

\* C21: every top-level render terminates when each collaborator call returns,
\* also when the recipe of a Request chain that sends references that chain: the
\* re-entry through builder.build is bounded as field recursion is.  A render that
\* terminates never builds the request of a chain inside the build of the request
\* of that same chain with the recursion counter where it was: the code being
\* deterministic, such a build repeats itself without end.
C21_ReentryIsBounded ==
    \A p, q \in DOMAIN futs :
        /\ Building(p) /\ Building(q) /\ Inside(p, q)
        /\ KeyName(p) = KeyName(q)
        => frames[q].loaded > frames[p].loaded

-----------------------------------------------------------------------------
(* join_all and the failure of a chunk *)

\* render_stitched of frame p was refused at its entry check
EntryRefused(p) ==
    /\ frames[p].pc = "done" /\ frames[p].loaded >= RECURSION_LIMIT
    /\ frames[p].res = Err([err |-> "RecursionLimit"])

\* render_stitched of frame p is past its render_chunks(context).await
Joined(p) == frames[p].pc \in {"stitch", "done"} /\ ~EntryRefused(p)

\* The collaborator a chain of this source calls, when it calls one whatever the
\* context
EffectOf(source) ==
    CASE source.type = "Prompt" -> {"prompter.prompt"}
      [] source.type = "File" -> {"fs.read"}
      [] source.type = "Command" /\ source.command # <<>> -> {"command.output"}
      [] OTHER -> {}

\* C22: a stitched render returns, with a string or with an error, only after
\* every per-chunk future of its template has completed; the failure of a chunk
\* cancels no sibling: the prompt, file read or command of every sibling chain has
\* been issued by then.
C22_StitchedAfterEveryChunk ==
    \A p \in DOMAIN frames :
        Joined(p) =>
            \A c \in Children(p) :
                /\ Finished(c)
                /\ ChainKey(c) => EffectOf(DefOf(c).source) \subseteq CallsBy(c)

\* A render returned the error of its first chunk, and its second chunk, a
\* prompt, was answered after the first chunk had failed
C22_Witness ==
    /\ <<>> \in DOMAIN frames /\ frames[<<>>].pc = "done"
    /\ Len(frames[<<>>].tmpl.chunks) = 2
    /\ frames[<<>>].res.tag = "Err"
    /\ futs[<<1>>].out.type = "Error"
    /\ frames[<<>>].res.error = futs[<<1>>].out.error
    /\ ChainKey(<<2>>) /\ DefOf(<<2>>).source.type = "Prompt"
    /\ "prompter.prompt" \in CallsBy(<<2>>)
    /\ futs[<<2>>].at > futs[<<1>>].at

-----------------------------------------------------------------------------
(* Sensitive values *)

\* The string x occurs in the string y
Occurs(x, y) == \E i \in 0..(Len(y) - Len(x)) : SubSeq(y, i + 1, i + Len(x)) = x

\* Every future from p down to q, q apart, renders a profile field
ThroughFields(p, q) ==
    \A k \in Len(p)..(Len(q) - 1) :
        LET a == SubSeq(q, 1, k) IN
        IsKey(a) /\ futs[a].chunk.variant = "Field" /\ ~Overridden(a)

\* The Rendered chunk of future p contains the output of the sensitive chain
\* rendered by future q: q is p, or p is a field whose template reaches q
Exposes(p, q) ==
    /\ Finished(p) /\ futs[p].out.type = "Rendered"
    /\ Finished(q) /\ futs[q].out.type = "Rendered"
    /\ q = p \/ (Inside(p, q) /\ ThroughFields(p, q))
    /\ ChainKey(q) /\ DefOf(q).sensitive
    /\ Occurs(futs[q].out.value, futs[p].out.value)

\* C23: every Rendered chunk whose value contains the output of a chain
\* defined with sensitive = true has sensitive = true, also when the chain is
\* reached through a profile field.
C23_SensitiveChainsStaySensitive ==
    \A p, q \in DOMAIN futs : Exposes(p, q) => futs[p].out.sensitive

-----------------------------------------------------------------------------
(* The order in which the futures complete *)

\* The counter when the current render started
CounterAtStart == recursion_count - Cardinality(FieldEntries)

\* The counter the entry check of frame p reads, from the place of p in the
\* template tree: the field renders entered at p or before it in polling order
ExpectedLoaded(p) ==
    CounterAtStart + Cardinality({ r \in FieldEntries : r = p \/ Before(r, p) })

\* What a render returns, from the templates, the context and the answers of the
\* collaborators alone: the ranks in which the futures completed are not read
RECURSIVE ExpectedRes(_), ExpectedOut(_)
ExpectedRes(p) ==
    IF ExpectedLoaded(p) >= RECURSION_LIMIT THEN Err([err |-> "RecursionLimit"])
    ELSE Stitched(frames[p].tmpl,
                  [i \in 1..Len(frames[p].tmpl.chunks) |-> ExpectedOut(p \o <<i>>)])

ExpectedOut(c) ==
    IF c \in DOMAIN frames /\ FieldKey(c)
    THEN LET rendered == ExpectedRes(c) IN
         ToChunk(IF rendered.tag = "Ok" THEN Ok(RenderedChunk(rendered.value, FALSE))
                 ELSE Err([err |-> "Nested", template |-> frames[c].tmpl.src,
                           error |-> rendered.error]))
    ELSE IF c \in DOMAIN frames
    THEN LET built == ExpectedRes(c)
             chain == DefOf(c)
             Trigger(error) ==
                 Err([err |-> "Trigger", recipe_id |-> Recipes[chain.source.recipe].id,
                      error |-> error])
         IN Resolved(KeyName(c), chain,
                IF built.tag = "Err"
                THEN ResponseSource(Trigger([err |-> "Build", error |-> built.error]))
                ELSE IF http_engine = "none"
                THEN ResponseSource(Trigger([err |-> "NotAllowed"]))
                ELSE AwaitedSource(chain.source, futs[c].io))
    ELSE IF futs[c].io # Pending
    THEN Resolved(KeyName(c), DefOf(c), AwaitedSource(DefOf(c).source, futs[c].io))
    \* completed in its first poll, before any await
    ELSE futs[c].out

\* C24: the result of a render, the string or the error and the chunk it is the
\* error of, is the same whatever the order in which the sibling futures complete,
\* the collaborators answering alike: every entry check reads the counter its
\* place in the template tree gives, and every render that has ended holds the
\* result computed from the templates, the context and the answers alone.
C24_ResultIndependentOfSchedule ==
    \A p \in DOMAIN frames :
        /\ frames[p].pc # "entry" => frames[p].loaded = ExpectedLoaded(p)
        /\ frames[p].pc = "done" => frames[p].res = ExpectedRes(p)

\* Two chunks awaited a collaborator and both failed, the second before the
\* first; the render ended in the error of the first
C24_Witness ==
    /\ <<>> \in DOMAIN frames /\ frames[<<>>].pc = "done"
    /\ Len(frames[<<>>].tmpl.chunks) = 2
    /\ futs[<<1>>].io # Pending /\ futs[<<2>>].io # Pending
    /\ futs[<<1>>].out.type = "Error" /\ futs[<<2>>].out.type = "Error"
    /\ futs[<<2>>].at < futs[<<1>>].at
    /\ frames[<<>>].res = Err(futs[<<1>>].out.error)

-----------------------------------------------------------------------------
(* The profile pane *)

\* The step ran ProfilePane::update
Updated == handled'.by = "update"

\* The events that waited on the ViewContext when the handler of this step ran:
\* the queue, less the event being handled when the view took it from the queue
Waiting ==
    IF events # <<>> /\ Head(events) = handled'.event THEN {events, Tail(events)}
    ELSE {events}

\* C25: the selected profile of the pane changes only in the step in which the
\* pane handles a SelectProfile event, never when the selection moves inside an
\* open modal.  On SelectProfile(id) the pane selects id, pushes
\* HttpSelectRequest(None) and returns Consumed; on a left click it opens a modal
\* with its own items, preselecting its selected profile, and returns Consumed;
\* every other event is returned in Propagate, and selection, modals and events
\* stay as they were.
C25_PaneSelectsOnSelectProfile ==
    [][/\ profiles' # profiles => Updated /\ EventLocal(handled'.event) # None
       /\ handled'.by = "select" => profiles' = profiles
       /\ Updated =>
            LET event == handled'.event IN
            IF EventAction(event) = Some("LeftClick")
            THEN /\ handled'.returned = Consumed
                 /\ modals' = Append(modals, SelectState(profiles.items,
                                                         profiles.selected))
                 /\ profiles' = profiles
                 /\ events' \in Waiting
            ELSE IF EventLocal(event) # None
            THEN /\ handled'.returned = Consumed
                 /\ profiles' = SelectState(profiles.items, EventLocal(event))
                 /\ modals' = modals
                 /\ \E queue \in Waiting :
                        events' = Append(queue, HttpSelectRequest(None))
            ELSE /\ handled'.returned = Propagate(event)
                 /\ profiles' = profiles
                 /\ modals' = modals
                 /\ events' \in Waiting]_vars

\* The pane handled SelectProfile(p3) and returned Consumed: p3 is selected and
\* HttpSelectRequest(None) is the newest event
C25_Witness ==
    /\ handled.by = "update"
    /\ EventLocal(handled.event) = Some("p3")
    /\ handled.returned = Consumed
    /\ profiles.selected = Some("p3")
    /\ events # <<>> /\ events[Len(events)] = HttpSelectRequest(None)

\* Every SelectProfile event that waits is the oldest event or comes right after a
\* CloseModal
ClosedBeforeSelected ==
    \A i \in DOMAIN events :
        EventLocal(events[i]) # None => i = 1 \/ events[i - 1] = CloseModal

\* C26: the step that submits a profile in the modal pushes two events and no
\* more, CloseModal and then SelectProfile(id) with the id of the submitted
\* profile; so CloseModal is taken from the queue before the pane receives the
\* selection.
C26_SubmitPushesCloseThenSelect ==
    /\ []ClosedBeforeSelected
    /\ [][handled'.by = "on_submit" =>
            /\ modals # <<>> /\ modals[1].selected # None
            /\ handled'.profile_id = modals[1].selected.value
            /\ events' = events \o <<CloseModal,
                                      LocalEvent(SelectProfile(handled'.profile_id))>>]_vars

\* A profile other than the pane's was submitted in the modal: the two newest
\* events are CloseModal and SelectProfile of that profile
C26_Witness ==
    /\ handled.by = "on_submit"
    /\ profiles.selected # Some(handled.profile_id)
    /\ Len(events) >= 2
    /\ events[Len(events) - 1] = CloseModal
    /\ events[Len(events)] = LocalEvent(SelectProfile(handled.profile_id))

=============================================================================
